---- MODULE Spec2Model ----
(***************************************************************************)
(* Model of the patch engine and the tool executor of                      *)
(* src-tauri/src/services/ai_service.rs.                                   *)
(*                                                                         *)
(* Strings are sequences of one-character strings, so that trimming,       *)
(* prefix tests, substring tests, splitting and joining are computed as    *)
(* the code computes them.  Indices into line lists are 0-based, as in the *)
(* source; element i of a Rust slice is element i+1 of the sequence.       *)
(***************************************************************************)
EXTENDS Integers, Sequences, FiniteSets, TLC

VARIABLES
    document,      \* apply: the text apply_update_chunks is called on next
    chunks,        \* apply: the chunk list of the Update File operation
    history,       \* apply: the texts of the earlier applications, oldest first
    applyResult,   \* apply: what the last apply_update_chunks call returned
    seekArgs,      \* seek: the arguments of the seek_sequence call
    seekResult,    \* seek: what seek_sequence returned
    patch,         \* parse: the model output handed to parse_patch
    parseResult,   \* parse: what parse_patch returned
    pageFiles,     \* tools: pages directory, filename -> content (or NoFile)
    toolCall,      \* tools: the tool call being executed
    toolResult,    \* tools: the ToolResult of the last executed tool call
    saved,         \* tools: whether the last tool call reached save_page_content
    loop,          \* agents: the state of the running agent loop
    store,         \* agents: the stored project (meta.json and the pages directory)
    editStep       \* race: an edit_file call in progress beside another writer

\* The variables of the agent loops and of the edit_file race.
loopVars == <<loop, store, editStep>>

vars == <<document, chunks, history, applyResult, seekArgs, seekResult,
          patch, parseResult, pageFiles, toolCall, toolResult, saved, loopVars>>

-----------------------------------------------------------------------------
(* Bounds of the model.                                                    *)

MaxDocLines == 3
MaxOldLines == 2
MaxNewLines == 1
MaxChunks == 2
MaxApplications == 2
MaxPatchLines == 4
MaxContentLen == 2

-----------------------------------------------------------------------------
(* Option<T>: None is the empty sequence, Some(x) the one-element one.     *)

None == <<>>
Some(x) == <<x>>
Min(a, b) == IF a <= b THEN a ELSE b
saturating_sub(a, b) == IF a >= b THEN a - b ELSE 0

\* All sequences over S of length at most n.
SeqsUpTo(S, n) == UNION {[1..k -> S] : k \in 0..n}

\* A for loop over ascending indices that returns Some(i) at its first hit:
\* hits is the set of the indices of the range that pass the loop's test.
first_index(hits) ==
    IF hits = {} THEN None
    ELSE Some(CHOOSE i \in hits : \A j \in hits : i <= j)

-----------------------------------------------------------------------------
(* str methods used by the patch engine.                                   *)

is_whitespace(c) == c \in {" ", "\t", "\n", "\r"}

RECURSIVE trim_start(_)
trim_start(s) ==
    IF s = <<>> THEN <<>>
    ELSE IF is_whitespace(Head(s)) THEN trim_start(Tail(s)) ELSE s

RECURSIVE trim_end(_)
trim_end(s) ==
    IF s = <<>> THEN <<>>
    ELSE IF is_whitespace(s[Len(s)]) THEN trim_end(SubSeq(s, 1, Len(s) - 1)) ELSE s

trim(s) == trim_end(trim_start(s))

starts_with(s, p) == Len(p) <= Len(s) /\ SubSeq(s, 1, Len(p)) = p

\* strip_prefix on a string known to start with p
strip_prefix(s, p) == SubSeq(s, Len(p) + 1, Len(s))

contains(s, p) == \E i \in 0..(Len(s) - Len(p)) : SubSeq(s, i + 1, i + Len(p)) = p

\* str::split(sep): always at least one piece
RECURSIVE split(_, _)
split(s, sep) ==
    IF \E i \in 1..Len(s) : s[i] = sep
    THEN LET i == CHOOSE i \in 1..Len(s) : s[i] = sep /\ \A j \in 1..(i - 1) : s[j] # sep
         IN  <<SubSeq(s, 1, i - 1)>> \o split(SubSeq(s, i + 1, Len(s)), sep)
    ELSE <<s>>

\* [String]::join(sep)
RECURSIVE join(_, _)
join(ls, sep) ==
    IF ls = <<>> THEN <<>>
    ELSE IF Len(ls) = 1 THEN ls[1]
    ELSE ls[1] \o sep \o join(Tail(ls), sep)

\* str::split_whitespace(): the non-empty maximal runs of non-whitespace
RECURSIVE split_whitespace(_)
split_whitespace(s) ==
    LET t == trim_start(s) IN
    IF t = <<>> THEN <<>>
    ELSE LET n == IF \E i \in 1..Len(t) : is_whitespace(t[i])
                  THEN (CHOOSE i \in 1..Len(t) : is_whitespace(t[i])
                            /\ \A j \in 1..(i - 1) : ~is_whitespace(t[j])) - 1
                  ELSE Len(t)
         IN  <<SubSeq(t, 1, n)>> \o split_whitespace(SubSeq(t, n + 1, Len(t)))

\* Iterator::take(n)
take(ls, n) == SubSeq(ls, 1, Min(n, Len(ls)))

\* Vec::remove(i) and Vec::insert(i, x), 0-based
vec_remove(ls, i) == SubSeq(ls, 1, i) \o SubSeq(ls, i + 2, Len(ls))
vec_insert(ls, i, x) == SubSeq(ls, 1, i) \o <<x>> \o SubSeq(ls, i + 1, Len(ls))

-----------------------------------------------------------------------------
(* ChunkLocator                                                            *)

\* lines[i..i + pattern.len()] == *pattern
slice_eq(lines, i, pattern) ==
    \A k \in 1..Len(pattern) : lines[i + k] = pattern[k]

\* the trimmed comparison of the second pass
trim_eq(lines, i, pattern) ==
    \A k \in 1..Len(pattern) : trim(lines[i + k]) = trim(pattern[k])

\* the bounds-checked trimmed comparison of the wrap-around pass
wrap_eq(lines, i, pattern) ==
    \A k \in 1..Len(pattern) :
        i + (k - 1) < Len(lines) /\ trim(lines[i + k]) = trim(pattern[k])

\* the search origin of seek_sequence
search_origin(lines, pattern, start, eof) ==
    IF eof /\ Len(lines) >= Len(pattern)
    THEN Len(lines) - Len(pattern)
    ELSE Min(start, saturating_sub(Len(lines), Len(pattern)))

\* seek_sequence with its first two passes swapped (trimmed before exact)
seek_sequence_trimmed_first(lines, pattern, start, eof) ==
    IF pattern = <<>> THEN Some(start)
    ELSE IF Len(pattern) > Len(lines) THEN None
    ELSE
      LET search_start == search_origin(lines, pattern, start, eof)
          last == saturating_sub(Len(lines), Len(pattern))
          exact == first_index({i \in search_start..last : slice_eq(lines, i, pattern)})
          trimmed == first_index({i \in search_start..last : trim_eq(lines, i, pattern)})
          wrapped == first_index({i \in 0..(search_start - 1) : wrap_eq(lines, i, pattern)})
      IN  IF trimmed # None THEN trimmed
          ELSE IF exact # None THEN exact
          ELSE IF search_start > 0 THEN wrapped
          ELSE None

seek_sequence(lines, pattern, start, eof) ==
    IF pattern = <<>> THEN Some(start)
    ELSE IF Len(pattern) > Len(lines) THEN None
    ELSE
      LET search_start == search_origin(lines, pattern, start, eof)
          last == saturating_sub(Len(lines), Len(pattern))
          exact == first_index({i \in search_start..last : slice_eq(lines, i, pattern)})
          trimmed == first_index({i \in search_start..last : trim_eq(lines, i, pattern)})
          wrapped == first_index({i \in 0..(search_start - 1) : wrap_eq(lines, i, pattern)})
      IN  IF exact # None THEN exact
          ELSE IF trimmed # None THEN trimmed
          ELSE IF search_start > 0 THEN wrapped
          ELSE None

\* find_line_fuzzy with the three tests tried together on each line
find_line_fuzzy_any_test(lines, target) ==
    LET target_trimmed == trim(target)
        target_words == take(split_whitespace(target_trimmed), 3)
    IN  first_index({i \in 0..(Len(lines) - 1) :
            \/ trim(lines[i + 1]) = target_trimmed
            \/ contains(lines[i + 1], target_trimmed)
            \/ contains(target_trimmed, trim(lines[i + 1]))
            \/ take(split_whitespace(trim(lines[i + 1])), 3) = target_words})

find_line_fuzzy(lines, target) ==
    LET target_trimmed == trim(target)
        n == Len(lines)
        exact == first_index({i \in 0..(n - 1) : trim(lines[i + 1]) = target_trimmed})
        partial == first_index({i \in 0..(n - 1) :
                       \/ contains(lines[i + 1], target_trimmed)
                       \/ contains(target_trimmed, trim(lines[i + 1]))})
        target_words == take(split_whitespace(target_trimmed), 3)
        words == first_index({i \in 0..(n - 1) :
                       take(split_whitespace(trim(lines[i + 1])), 3) = target_words})
    IN  IF exact # None THEN exact
        ELSE IF partial # None THEN partial
        ELSE IF target_words # <<>> THEN words
        ELSE None

-----------------------------------------------------------------------------
(* ReplacementApplier                                                      *)

\* An UpdateFileChunk
Chunk(ctx, old, new, eof) ==
    [change_context |-> ctx, old_lines |-> old, new_lines |-> new, is_end_of_file |-> eof]

\* The cursor after the chunk's change_context has been looked up.
anchor_context(original_lines, chunk, line_index) ==
    IF chunk.change_context = None THEN line_index
    ELSE LET ctx_line == chunk.change_context[1]
             sought == seek_sequence(original_lines, <<ctx_line>>, line_index, FALSE)
             fuzzy == find_line_fuzzy(original_lines, ctx_line)
         IN  IF sought # None THEN sought[1] + 1
             ELSE IF fuzzy # None THEN fuzzy[1] + 1
             ELSE line_index

\* match_count of the fuzzy fallback: the number of old lines that loosely
\* match from idx on, counted up to the first mismatch; old lines that fall
\* past the end of the document are skipped without ending the count.
RECURSIVE match_count(_, _, _, _)
match_count(original_lines, pattern, idx, i) ==
    IF i >= Len(pattern) THEN 0
    ELSE IF idx + i < Len(original_lines)
    THEN LET orig == trim(original_lines[idx + i + 1])
             old == trim(pattern[i + 1])
         IN  IF orig = old \/ contains(orig, old) \/ contains(old, orig)
             THEN 1 + match_count(original_lines, pattern, idx, i + 1)
             ELSE 0
    ELSE match_count(original_lines, pattern, idx, i + 1)

\* Where a chunk with non-empty old_lines is found (the three lookups).
locate_old_lines(original_lines, chunk, line_index) ==
    LET pattern == chunk.old_lines
        first == seek_sequence(original_lines, pattern, line_index, chunk.is_end_of_file)
        retried ==
            IF first = None /\ pattern[Len(pattern)] = <<>>
            THEN seek_sequence(original_lines, SubSeq(pattern, 1, Len(pattern) - 1),
                               line_index, chunk.is_end_of_file)
            ELSE first
        significant == first_index({k \in 1..(Len(pattern)) : trim(pattern[k]) # <<>>})
        anchor == IF significant = None THEN None
                  ELSE find_line_fuzzy(original_lines, pattern[significant[1]])
    IN  IF retried # None THEN retried
        ELSE IF anchor # None /\ match_count(original_lines, pattern, anchor[1], 0) > 0
             THEN anchor
        ELSE None

\* chunk_step that moves the cursor behind the lines of a pure insertion
chunk_step_insertion_advances(original_lines, chunk, cursor) ==
    LET line_index == anchor_context(original_lines, chunk, cursor) IN
    IF chunk.old_lines = <<>>
    THEN [rep |-> << IF chunk.is_end_of_file THEN Len(original_lines)
                     ELSE Min(line_index, Len(original_lines)),
                     0, chunk.new_lines >>,
          line_index |-> line_index + Len(chunk.new_lines)]
    ELSE LET found == locate_old_lines(original_lines, chunk, line_index) IN
         IF found = None /\ line_index > 0
         THEN [rep |-> <<line_index, 0, chunk.new_lines>>, line_index |-> line_index]
         ELSE IF found # None
         THEN [rep |-> <<found[1], Len(chunk.old_lines), chunk.new_lines>>,
               line_index |-> found[1] + Len(chunk.old_lines)]
         ELSE [rep |-> <<Len(original_lines), 0, chunk.new_lines>>,
               line_index |-> line_index]

\* chunk_step without the insertion at the cursor: a chunk that is not found
\* is appended at the end of the document
chunk_step_append_only(original_lines, chunk, cursor) ==
    LET line_index == anchor_context(original_lines, chunk, cursor) IN
    IF chunk.old_lines = <<>>
    THEN [rep |-> << IF chunk.is_end_of_file THEN Len(original_lines)
                     ELSE Min(line_index, Len(original_lines)),
                     0, chunk.new_lines >>,
          line_index |-> line_index]
    ELSE LET found == locate_old_lines(original_lines, chunk, line_index) IN
         IF found # None
         THEN [rep |-> <<found[1], Len(chunk.old_lines), chunk.new_lines>>,
               line_index |-> found[1] + Len(chunk.old_lines)]
         ELSE [rep |-> <<Len(original_lines), 0, chunk.new_lines>>,
               line_index |-> line_index]

\* One pass of the loop over the chunks: the replacement pushed and the
\* cursor the next chunk sees.
chunk_step(original_lines, chunk, cursor) ==
    LET line_index == anchor_context(original_lines, chunk, cursor) IN
    IF chunk.old_lines = <<>>
    THEN [rep |-> << IF chunk.is_end_of_file THEN Len(original_lines)
                     ELSE Min(line_index, Len(original_lines)),
                     0, chunk.new_lines >>,
          line_index |-> line_index]
    ELSE LET found == locate_old_lines(original_lines, chunk, line_index) IN
         IF found = None /\ line_index > 0
         THEN [rep |-> <<line_index, 0, chunk.new_lines>>, line_index |-> line_index]
         ELSE IF found # None
         THEN [rep |-> <<found[1], Len(chunk.old_lines), chunk.new_lines>>,
               line_index |-> found[1] + Len(chunk.old_lines)]
         ELSE [rep |-> <<Len(original_lines), 0, chunk.new_lines>>,
               line_index |-> line_index]

RECURSIVE compute_loop(_, _, _, _)
compute_loop(original_lines, cs, replacements, line_index) ==
    IF cs = <<>> THEN replacements
    ELSE LET step == chunk_step(original_lines, Head(cs), line_index)
         IN  compute_loop(original_lines, Tail(cs),
                          Append(replacements, step.rep), step.line_index)

\* Vec::sort_by on the start index: a stable sort (insertion from the left)
RECURSIVE sort_by_start(_)
sort_by_start(reps) ==
    IF reps = <<>> THEN <<>>
    ELSE LET n == Len(reps)
             x == reps[n]
             rest == sort_by_start(SubSeq(reps, 1, n - 1))
             k == Cardinality({j \in 1..Len(rest) : rest[j][1] <= x[1]})
         IN  SubSeq(rest, 1, k) \o <<x>> \o SubSeq(rest, k + 1, Len(rest))

compute_replacements(original_lines, cs) ==
    [ok |-> TRUE, value |-> sort_by_start(compute_loop(original_lines, cs, <<>>, 0))]

\* for _ in 0..old_len { if start_idx < lines.len() { lines.remove(start_idx) } }
RECURSIVE remove_old(_, _, _)
remove_old(lines, start_idx, old_len) ==
    IF old_len = 0 THEN lines
    ELSE remove_old(IF start_idx < Len(lines) THEN vec_remove(lines, start_idx) ELSE lines,
                    start_idx, old_len - 1)

\* line_number without the step from the 0-based index to the 1-indexed line
line_number_zero_based(start_idx, offset) == start_idx + offset

\* updated_line_numbers.push(start_idx + offset + 1): 1-indexed
line_number(start_idx, offset) == start_idx + offset + 1

\* The insert loop of one replacement.  Vec::insert panics when the index is
\* greater than the length.
RECURSIVE insert_new(_, _, _, _)
insert_new(acc, start_idx, new_segment, offset) ==
    IF offset >= Len(new_segment) \/ acc.panicked THEN acc
    ELSE IF start_idx + offset > Len(acc.lines)
    THEN [acc EXCEPT !.panicked = TRUE]
    ELSE insert_new([acc EXCEPT
                        !.lines = vec_insert(acc.lines, start_idx + offset, new_segment[offset + 1]),
                        !.numbers = Append(acc.numbers, line_number(start_idx, offset))],
                    start_idx, new_segment, offset + 1)

\* The loop over replacements.iter().rev(); k replacements are still to do.
RECURSIVE apply_loop(_, _, _)
apply_loop(acc, replacements, k) ==
    IF k = 0 \/ acc.panicked THEN acc
    ELSE LET r == replacements[k]
             removed == [acc EXCEPT !.lines = remove_old(acc.lines, r[1], r[2])]
             inserted == insert_new(removed, r[1], r[3], 0)
         IN  apply_loop([inserted EXCEPT !.content = inserted.content \o r[3]],
                        replacements, k - 1)

apply_replacements(lines, replacements) ==
    LET acc == apply_loop([lines |-> lines, numbers |-> <<>>, content |-> <<>>,
                           panicked |-> FALSE],
                          replacements, Len(replacements))
    IN  [lines |-> acc.lines, numbers |-> acc.numbers,
         inserted |-> join(acc.content, <<"\n">>), panicked |-> acc.panicked]

\* original.split('\n') with one trailing empty element dropped
original_lines_of(original) ==
    LET ls == split(original, "\n")
    IN  IF ls[Len(ls)] = <<>> THEN SubSeq(ls, 1, Len(ls) - 1) ELSE ls

\* Result of apply_update_chunks.  status is "ok", "err" or "panic"; on
\* "panic" the call unwinds and there is no returned value.
\* if !new_lines.last().map_or(false, |s| s.is_empty()) { new_lines.push("") }
push_trailing_empty(new_lines) ==
    IF new_lines # <<>> /\ new_lines[Len(new_lines)] = <<>>
    THEN new_lines
    ELSE Append(new_lines, <<>>)

\* The tail of apply_update_chunks, from the outcome of apply_replacements.
join_applied(applied) ==
    IF applied.panicked
    THEN [status |-> "panic", text |-> <<>>, numbers |-> <<>>, inserted |-> <<>>]
    ELSE [status |-> "ok", text |-> join(push_trailing_empty(applied.lines), <<"\n">>),
          numbers |-> applied.numbers, inserted |-> applied.inserted]

\* apply_update_chunks from the `?` on compute_replacements on.
apply_computed(original_lines, computed) ==
    IF ~computed.ok
    THEN [status |-> "err", text |-> <<>>, numbers |-> <<>>, inserted |-> <<>>]
    ELSE join_applied(apply_replacements(original_lines, computed.value))

\* apply_update_chunks once the original is split into lines.
apply_to_lines(original_lines, cs) ==
    apply_computed(original_lines, compute_replacements(original_lines, cs))

apply_update_chunks(original, cs) ==
    apply_to_lines(original_lines_of(original), cs)

-----------------------------------------------------------------------------
(* Inputs of the patch application.                                        *)

LineA == <<"A">>
LineIndentedA == <<" ", "A">>
LineB == <<"B">>
LineC == <<"C">>
LineX == <<"X">>
LineEmpty == <<>>

DocLinePool == {LineA, LineIndentedA, LineB, LineEmpty}
OldLinePool == {LineA, LineB, LineEmpty}
NewLinePool == {LineX, LineEmpty}
ContextPool == {None, Some(LineB)}

\* Every text whose split('\n') has at most MaxDocLines pieces from the pool.
Documents == {join(ls, <<"\n">>) : ls \in SeqsUpTo(DocLinePool, MaxDocLines)}

Chunks ==
    {Chunk(ctx, old, new, eof) :
        ctx \in ContextPool, old \in SeqsUpTo(OldLinePool, MaxOldLines),
        new \in SeqsUpTo(NewLinePool, MaxNewLines), eof \in BOOLEAN}

\* The scenario of section 8: lines A, B, C and a chunk that keeps B and adds X.
ScenarioDocument == join(<<LineA, LineB, LineC>>, <<"\n">>)
ScenarioChunk == Chunk(None, <<LineB>>, <<LineB, LineX>>, FALSE)

NoApplyResult == [status |-> "none", text |-> <<>>, numbers |-> <<>>, inserted |-> <<>>]
NoSeekArgs == [lines |-> <<>>, pattern |-> <<>>, start |-> 0, eof |-> FALSE]
NoToolCall == [agent |-> "none", name |-> "none", arguments |-> <<>>]
NoToolResult == [tool_name |-> "none", success |-> FALSE]

ApplyIdle ==
    /\ document = <<>> /\ chunks = <<>> /\ history = <<>> /\ applyResult = NoApplyResult
NoSeekResult == [done |-> FALSE, found |-> None]
SeekIdle == seekArgs = NoSeekArgs /\ seekResult = NoSeekResult
NoParseResult == [done |-> FALSE, ok |-> FALSE, operations |-> <<>>]
ParseIdle == patch = <<>> /\ parseResult = NoParseResult
ToolsIdle ==
    /\ pageFiles = <<>> /\ toolCall = NoToolCall /\ toolResult = NoToolResult /\ saved = FALSE
NoLoop == [agent |-> "none"]
NoStore == [page_order |-> <<>>]
NoEditStep == [pc |-> "none"]
LoopIdle == loop = NoLoop /\ store = NoStore /\ editStep = NoEditStep

-----------------------------------------------------------------------------
(* Applying an Update File operation: expand_selection_with_ai hands the   *)
(* current content and the operation's chunks to apply_update_chunks and   *)
(* keeps the returned text as the content the next operation is applied to.*)

ApplyUpdateChunks(limit) ==
    /\ Len(history) < limit
    /\ applyResult.status \in {"none", "ok"}
    /\ LET r == apply_update_chunks(document, chunks) IN
         /\ applyResult' = r
         /\ history' = Append(history, document)
         /\ document' = IF r.status = "ok" THEN r.text ELSE document
    /\ UNCHANGED <<loopVars, chunks, seekArgs, seekResult, patch, parseResult,
                   pageFiles, toolCall, toolResult, saved>>

\* One Update File operation with a single chunk.
InitApply ==
    /\ \/ document \in Documents /\ chunks \in {<<c>> : c \in Chunks}
       \/ document = ScenarioDocument /\ chunks = <<ScenarioChunk>>
    /\ history = <<>> /\ applyResult = NoApplyResult
    /\ SeekIdle /\ ParseIdle /\ ToolsIdle /\ LoopIdle

NextApply == ApplyUpdateChunks(1)

SpecApply == InitApply /\ [][NextApply]_vars

\* An Update File operation with up to MaxChunks chunks.
ManyChunks ==
    {Chunk(ctx, old, new, eof) :
        ctx \in ContextPool, old \in SeqsUpTo({LineA, LineB}, MaxOldLines),
        new \in SeqsUpTo({LineX}, MaxNewLines), eof \in BOOLEAN}

\* The texts those chunks are applied to: lines the chunks can name.
ManyDocuments == {join(ls, <<"\n">>) : ls \in SeqsUpTo({LineA, LineB}, MaxDocLines)}

InitApplyMany ==
    /\ document \in ManyDocuments /\ chunks \in SeqsUpTo(ManyChunks, MaxChunks)
    /\ history = <<>> /\ applyResult = NoApplyResult
    /\ SeekIdle /\ ParseIdle /\ ToolsIdle /\ LoopIdle

SpecApplyMany == InitApplyMany /\ [][NextApply]_vars

\* Two chunks whose inserted lines can be told apart: the first inserts X,
\* the second Y.
LineY == <<"Y">>

ChunksInserting(line) ==
    {Chunk(ctx, old, new, eof) :
        ctx \in ContextPool, old \in SeqsUpTo({LineA, LineB}, MaxOldLines),
        new \in SeqsUpTo({line}, MaxNewLines), eof \in BOOLEAN}

InitApplyPair ==
    /\ document \in ManyDocuments
    /\ \E first \in ChunksInserting(LineX) : \E second \in ChunksInserting(LineY) :
          chunks = <<first, second>>
    /\ history = <<>> /\ applyResult = NoApplyResult
    /\ SeekIdle /\ ParseIdle /\ ToolsIdle /\ LoopIdle

SpecApplyPair == InitApplyPair /\ [][NextApply]_vars

\* The same operation applied again to the text the first application returned.
NextApplyTwice == ApplyUpdateChunks(MaxApplications)

SpecApplyTwice == InitApply /\ [][NextApplyTwice]_vars

\* One chunk whose old_lines the lookups of compute_replacements find, or
\* fail to find, in each of their ways: lines of two words, apart by one
\* space in the document and by two in old_lines, agree in their words only.
LineAB == <<"A", " ", "B">>
LineAWideB == <<"A", " ", " ", "B">>

LocateDocuments ==
    {join(ls, <<"\n">>) : ls \in SeqsUpTo({LineA, LineIndentedA, LineB, LineAB}, MaxDocLines)}

LocateChunks ==
    {Chunk(ctx, old, new, eof) :
        ctx \in ContextPool,
        old \in SeqsUpTo({LineA, LineB, LineAWideB, LineEmpty}, MaxOldLines),
        new \in SeqsUpTo({LineX}, MaxNewLines), eof \in BOOLEAN}

InitLocate ==
    /\ document \in LocateDocuments /\ chunks \in {<<c>> : c \in LocateChunks}
    /\ history = <<>> /\ applyResult = NoApplyResult
    /\ SeekIdle /\ ParseIdle /\ ToolsIdle /\ LoopIdle

SpecLocate == InitLocate /\ [][NextApply]_vars

-----------------------------------------------------------------------------
(* Properties of the patch application.                                    *)

\* The lines of a returned document: its split on line breaks.
TextLines(text) == split(text, "\n")

\* The document the (first) application was called on, as the line list the
\* replacements are computed against.
InputLines == original_lines_of(history[1])

Applied == history # <<>>

RECURSIVE IsSubsequence(_, _)
IsSubsequence(sub, full) ==
    IF sub = <<>> THEN TRUE
    ELSE IF full = <<>> THEN FALSE
    ELSE IF Head(sub) = Head(full) THEN IsSubsequence(Tail(sub), Tail(full))
    ELSE IsSubsequence(sub, Tail(full))

RECURSIVE SelectLines(_, _, _)
SelectLines(lines, keep, i) ==
    IF i >= Len(lines) THEN <<>>
    ELSE (IF i \in keep THEN <<lines[i + 1]>> ELSE <<>>) \o SelectLines(lines, keep, i + 1)

\* The indices of the input lines that lie outside every replacement's range.
UntouchedIndices ==
    LET reps == compute_replacements(InputLines, chunks).value
    IN  {i \in 0..(Len(InputLines) - 1) :
            \A k \in 1..Len(reps) : ~(reps[k][1] <= i /\ i < reps[k][1] + reps[k][2])}

\* C2 (as claimed): every input line outside every replacement's
\* [start, start + old_len) range is present, unchanged and in its original
\* relative order, in the returned document.
C2_UntouchedLinesKept ==
    (Applied /\ applyResult.status = "ok") =>
        IsSubsequence(SelectLines(InputLines, UntouchedIndices, 0), TextLines(applyResult.text))

\* The number of offsets at which pattern occurs exactly in lines.
Occurrences(lines, pattern) ==
    Cardinality({i \in 0..(Len(lines) - Len(pattern)) : slice_eq(lines, i, pattern)})

OnceInDocument ==
    /\ Applied /\ Len(chunks) = 1
    /\ chunks[1].old_lines # <<>>
    /\ Occurrences(InputLines, chunks[1].old_lines) = 1

C4_ScenarioNumbers ==
    (Applied /\ history[1] = ScenarioDocument /\ chunks = <<ScenarioChunk>>) =>
        /\ applyResult.status = "ok"
        /\ original_lines_of(applyResult.text) = <<LineA, LineB, LineX, LineC>>
        /\ applyResult.numbers = <<3>>

RECURSIVE CountLine(_, _)
CountLine(lines, v) ==
    IF lines = <<>> THEN 0
    ELSE (IF Head(lines) = v THEN 1 ELSE 0) + CountLine(Tail(lines), v)

RECURSIVE InsertedCount(_, _)
InsertedCount(cs, v) ==
    IF cs = <<>> THEN 0 ELSE CountLine(Head(cs).new_lines, v) + InsertedCount(Tail(cs), v)

InsertionOnly ==
    /\ chunks # <<>>
    /\ \A k \in 1..Len(chunks) : chunks[k].old_lines = <<>> /\ chunks[k].new_lines # <<>>

\* C6 (as claimed): an insertion-only chunk list applied twice in succession
\* inserts its lines twice: the second application changes the text, and
\* each inserted line occurs once more (per insertion) than after the first.
C6_InsertionTwiceDuplicates ==
    (InsertionOnly /\ Len(history) = 2 /\ applyResult.status = "ok") =>
        /\ document # history[2]
        /\ \A k \in 1..Len(chunks) : \A j \in 1..Len(chunks[k].new_lines) :
             LET v == chunks[k].new_lines[j] IN
             CountLine(original_lines_of(document), v)
                = CountLine(original_lines_of(history[2]), v) + InsertedCount(chunks, v)

\* C7 (as claimed): the returned text ends with exactly one line break.
C7_OneTrailingLineBreak ==
    (Applied /\ applyResult.status = "ok") =>
        LET t == applyResult.text IN
        /\ Len(t) >= 1 /\ t[Len(t)] = "\n"
        /\ Len(t) >= 2 => t[Len(t) - 1] # "\n"

\* C8 (as claimed): compute_replacements returns one replacement per chunk
\* for every input, and so apply_update_chunks returns a result.
C8_AlwaysAResult ==
    Applied =>
        LET computed == compute_replacements(InputLines, chunks) IN
        /\ computed.ok
        /\ Len(computed.value) = Len(chunks)
        /\ applyResult.status = "ok"

-----------------------------------------------------------------------------
(* seek_sequence on its own: the arguments compute_replacements can pass   *)
(* (the cursor may lie past the end of the document).                      *)

PatternLinePool == {LineA, LineIndentedA, LineB}

InitSeek ==
    /\ seekArgs \in [lines : SeqsUpTo(DocLinePool, MaxDocLines),
                     pattern : SeqsUpTo(PatternLinePool, MaxOldLines),
                     start : 0..(MaxDocLines + 1),
                     eof : BOOLEAN]
    /\ seekResult = NoSeekResult
    /\ ApplyIdle /\ ParseIdle /\ ToolsIdle /\ LoopIdle

SeekSequence ==
    /\ ~seekResult.done
    /\ seekResult' = [done |-> TRUE,
                      found |-> seek_sequence(seekArgs.lines, seekArgs.pattern,
                                              seekArgs.start, seekArgs.eof)]
    /\ UNCHANGED <<loopVars, document, chunks, history, applyResult, seekArgs,
                   patch, parseResult, pageFiles, toolCall, toolResult, saved>>

NextSeek == SeekSequence

SpecSeek == InitSeek /\ [][NextSeek]_vars

\* Offsets at which the document holds an exact copy of the pattern, and
\* offsets at which it holds a copy that is equal only after trimming.
SeekFits == seekArgs.pattern # <<>> /\ Len(seekArgs.pattern) <= Len(seekArgs.lines)
SeekOffsets == 0..(Len(seekArgs.lines) - Len(seekArgs.pattern))
ExactCopies == {i \in SeekOffsets : slice_eq(seekArgs.lines, i, seekArgs.pattern)}
TrimEqualCopies == {i \in SeekOffsets : trim_eq(seekArgs.lines, i, seekArgs.pattern)}
VariedCopies == TrimEqualCopies \ ExactCopies

\* Where the scan starts: the last feasible offset under eof, else start
\* clamped to the last feasible offset.
SeekOrigin ==
    LET last == Len(seekArgs.lines) - Len(seekArgs.pattern)
    IN  IF seekArgs.eof \/ seekArgs.start > last THEN last ELSE seekArgs.start

Least(S) == CHOOSE i \in S : \A j \in S : i <= j

\* C5 (as claimed): whenever the document holds an exact copy and, at another
\* offset, a whitespace-varied copy, seek_sequence returns the offset of an
\* exact copy, for every start and eof flag.
C5_ExactCopyAlwaysWins ==
    (seekResult.done /\ SeekFits /\ ExactCopies # {} /\ VariedCopies # {}) =>
        /\ seekResult.found # None
        /\ seekResult.found[1] \in ExactCopies

\* C5 (amended): an exact copy at or after the search origin wins over every
\* whitespace-varied copy: the first such exact copy is returned.  Without
\* one, the first trim-equal copy at or after the origin is returned, and
\* only without that the first trim-equal copy before the origin.
C5_ExactCopyWinsFromOrigin ==
    (seekResult.done /\ SeekFits) =>
        LET exactAhead == {i \in ExactCopies : i >= SeekOrigin}
            trimAhead == {i \in TrimEqualCopies : i >= SeekOrigin}
            behind == {i \in TrimEqualCopies : i < SeekOrigin}
        IN  /\ exactAhead # {} => seekResult.found = Some(Least(exactAhead))
            /\ (exactAhead = {} /\ trimAhead # {}) => seekResult.found = Some(Least(trimAhead))
            /\ (trimAhead = {} /\ behind # {}) => seekResult.found = Some(Least(behind))
            /\ TrimEqualCopies = {} => seekResult.found = None

\* C5 witness: a whitespace-varied copy lies at or after the origin and before
\* the exact copy, and the exact copy's offset was returned.
C5_Witness ==
    /\ seekResult.done /\ SeekFits
    /\ \E e \in ExactCopies : \E w \in VariedCopies :
          /\ SeekOrigin <= w /\ w < e
          /\ seekResult.found = Some(e)

-----------------------------------------------------------------------------
(* PatchParser                                                             *)

BEGIN_PATCH == <<"*", "*", "*", " ", "B", "e", "g", "i", "n", " ", "P", "a", "t", "c", "h">>
END_PATCH == <<"*", "*", "*", " ", "E", "n", "d", " ", "P", "a", "t", "c", "h">>
ADD_FILE == <<"*", "*", "*", " ", "A", "d", "d", " ", "F", "i", "l", "e", ":">>
UPDATE_FILE == <<"*", "*", "*", " ", "U", "p", "d", "a", "t", "e", " ", "F", "i", "l", "e", ":">>
DELETE_FILE == <<"*", "*", "*", " ", "D", "e", "l", "e", "t", "e", " ", "F", "i", "l", "e", ":">>
END_OF_FILE == <<"*", "*", "*", " ", "E", "n", "d", " ", "o", "f", " ", "F", "i", "l", "e">>
STARS == <<"*", "*", "*">>
AT_AT == <<"@", "@">>
AT_AT_SPACE == <<"@", "@", " ">>

\* str::lines(): the pieces between line feeds, without a final empty piece,
\* each piece that a line feed ended stripped of one carriage return before it
str_lines(text) ==
    LET pieces == split(text, "\n")
        n == Len(pieces)
        kept == IF pieces[n] = <<>> THEN n - 1 ELSE n
    IN  [k \in 1..kept |->
            IF k < n /\ pieces[k] # <<>> /\ pieces[k][Len(pieces[k])] = "\r"
            THEN SubSeq(pieces[k], 1, Len(pieces[k]) - 1)
            ELSE pieces[k]]

AddFile(path, content) == [type |-> "AddFile", path |-> path, content |-> content]
UpdateFile(path, cs) == [type |-> "UpdateFile", path |-> path, chunks |-> cs]
DeleteFile(path) == [type |-> "DeleteFile", path |-> path]

\* the stop conditions shared by the Update File loop and the chunk body
is_file_boundary(trimmed) ==
    \/ starts_with(trimmed, ADD_FILE)
    \/ starts_with(trimmed, UPDATE_FILE)
    \/ starts_with(trimmed, DELETE_FILE)
    \/ starts_with(trimmed, END_PATCH)

\* The body loop of parse_update_chunk from lines[k] on (0-based k).
RECURSIVE chunk_body(_, _, _)
chunk_body(lines, k, acc) ==
    IF k >= Len(lines) THEN acc
    ELSE LET line == lines[k + 1]
             trimmed == trim(line)
         IN  IF starts_with(trimmed, AT_AT) \/ is_file_boundary(trimmed) THEN acc
             ELSE IF trimmed = END_OF_FILE
             THEN [acc EXCEPT !.is_end_of_file = TRUE, !.parsed_lines = @ + 1]
             ELSE IF line = <<>>
             THEN chunk_body(lines, k + 1,
                     [acc EXCEPT !.old_lines = Append(@, <<>>),
                                 !.new_lines = Append(@, <<>>),
                                 !.parsed_lines = @ + 1])
             ELSE IF Head(line) = " "
             THEN chunk_body(lines, k + 1,
                     [acc EXCEPT !.old_lines = Append(@, Tail(line)),
                                 !.new_lines = Append(@, Tail(line)),
                                 !.parsed_lines = @ + 1])
             ELSE IF Head(line) = "+"
             THEN chunk_body(lines, k + 1,
                     [acc EXCEPT !.new_lines = Append(@, Tail(line)),
                                 !.parsed_lines = @ + 1])
             ELSE IF Head(line) = "-"
             THEN chunk_body(lines, k + 1,
                     [acc EXCEPT !.old_lines = Append(@, Tail(line)),
                                 !.parsed_lines = @ + 1])
             ELSE acc

\* (Option<UpdateFileChunk>, lines consumed)
parse_update_chunk(lines) ==
    IF lines = <<>> THEN [chunk |-> None, consumed |-> 0]
    ELSE
      LET first_line == lines[1]
          trimmed == trim(first_line)
          is_marker == starts_with(trimmed, AT_AT)
          is_diff == first_line # <<>> /\ Head(first_line) \in {" ", "+", "-"}
          change_context ==
              IF trimmed = AT_AT THEN None
              ELSE IF starts_with(trimmed, AT_AT_SPACE)
              THEN Some(strip_prefix(trimmed, AT_AT_SPACE))
              ELSE IF is_marker
              THEN LET ctx == trim(strip_prefix(trimmed, AT_AT))
                   IN  IF ctx = <<>> THEN None ELSE Some(ctx)
              ELSE None
          start_idx == IF is_marker THEN 1 ELSE 0
          body == chunk_body(lines, start_idx,
                     [old_lines |-> <<>>, new_lines |-> <<>>,
                      is_end_of_file |-> FALSE, parsed_lines |-> start_idx])
      IN  IF ~is_marker /\ ~is_diff THEN [chunk |-> None, consumed |-> 1]
          ELSE IF body.old_lines = <<>> /\ body.new_lines = <<>>
          THEN [chunk |-> None, consumed |-> body.parsed_lines]
          ELSE [chunk |-> Some(Chunk(change_context, body.old_lines, body.new_lines,
                                     body.is_end_of_file)),
                consumed |-> body.parsed_lines]

\* add_file_body that pushes the content line with its `+` left in place
RECURSIVE add_file_body_keeps_plus(_, _, _)
add_file_body_keeps_plus(lines, i, content) ==
    IF i >= Len(lines) THEN [content |-> content, next |-> i]
    ELSE LET content_line == lines[i + 1] IN
         IF starts_with(content_line, STARS) THEN [content |-> content, next |-> i]
         ELSE IF starts_with(content_line, <<"+">>)
         THEN add_file_body_keeps_plus(lines, i + 1, content \o content_line \o <<"\n">>)
         ELSE add_file_body_keeps_plus(lines, i + 1, content)

\* The content loop of an Add File directive from lines[i] on: the content
\* and the index of the line the directive loop goes on with.
RECURSIVE add_file_body(_, _, _)
add_file_body(lines, i, content) ==
    IF i >= Len(lines) THEN [content |-> content, next |-> i]
    ELSE LET content_line == lines[i + 1] IN
         IF starts_with(content_line, STARS) THEN [content |-> content, next |-> i]
         ELSE IF starts_with(content_line, <<"+">>)
         THEN add_file_body(lines, i + 1,
                            content \o strip_prefix(content_line, <<"+">>) \o <<"\n">>)
         ELSE add_file_body(lines, i + 1, content)

\* The chunk loop of an Update File directive from lines[i] on.
RECURSIVE update_file_body(_, _, _)
update_file_body(lines, i, cs) ==
    IF i >= Len(lines) THEN [chunks |-> cs, next |-> i]
    ELSE LET trimmed == trim(lines[i + 1]) IN
         IF is_file_boundary(trimmed) THEN [chunks |-> cs, next |-> i]
         ELSE IF trimmed = <<>> THEN update_file_body(lines, i + 1, cs)
         ELSE LET parsed == parse_update_chunk(SubSeq(lines, i + 1, Len(lines)))
                  step == IF parsed.consumed >= 1 THEN parsed.consumed ELSE 1
              IN  update_file_body(lines, i + step,
                                   IF parsed.chunk # None
                                   THEN Append(cs, parsed.chunk[1]) ELSE cs)

\* The directive loop from lines[i] on.
RECURSIVE directive_loop(_, _, _)
directive_loop(lines, i, operations) ==
    IF i >= Len(lines) THEN operations
    ELSE LET line == trim(lines[i + 1]) IN
         IF starts_with(line, END_PATCH) THEN operations
         ELSE IF starts_with(line, ADD_FILE)
         THEN LET body == add_file_body(lines, i + 1, <<>>)
              IN  directive_loop(lines, body.next,
                     Append(operations,
                            AddFile(trim(strip_prefix(line, ADD_FILE)), body.content)))
         ELSE IF starts_with(line, UPDATE_FILE)
         THEN LET body == update_file_body(lines, i + 1, <<>>)
              IN  directive_loop(lines, body.next,
                     Append(operations,
                            UpdateFile(trim(strip_prefix(line, UPDATE_FILE)), body.chunks)))
         ELSE IF starts_with(line, DELETE_FILE)
         THEN directive_loop(lines, i + 1,
                     Append(operations, DeleteFile(trim(strip_prefix(line, DELETE_FILE)))))
         ELSE directive_loop(lines, i + 1, operations)

\* The index of the first line whose trimmed content starts with the begin
\* marker.
find_begin(lines) ==
    first_index({i \in 0..(Len(lines) - 1) : starts_with(trim(lines[i + 1]), BEGIN_PATCH)})

\* parse_patch without the check for the begin marker: directives are read
\* from the first line when there is none
parse_patch_lenient(patch_text) ==
    LET lines == str_lines(patch_text)
        begin == find_begin(lines)
    IN  [ok |-> TRUE,
         operations |-> directive_loop(lines, IF begin = None THEN 0 ELSE begin[1] + 1, <<>>)]

\* Result<Vec<PatchOperation>, String>: an Err carries no operations.
parse_patch(patch_text) ==
    LET lines == str_lines(patch_text)
        begin == find_begin(lines)
    IN  IF begin = None
        THEN [ok |-> FALSE, operations |-> <<>>]
        ELSE [ok |-> TRUE, operations |-> directive_loop(lines, begin[1] + 1, <<>>)]

-----------------------------------------------------------------------------
(* parse_patch on a model output: expand_selection_with_ai parses the      *)
(* response of the model once.                                             *)

BeginLine == BEGIN_PATCH
IndentedBeginLine == <<" ">> \o BEGIN_PATCH
EndLine == END_PATCH
AddLine == ADD_FILE \o <<" ", "p">>
UpdateLine == UPDATE_FILE \o <<" ", "p">>
DeleteLine == DELETE_FILE \o <<" ", "p">>

PatchLinePool ==
    {BeginLine, IndentedBeginLine, EndLine, AddLine, UpdateLine, DeleteLine,
     <<"+", "a">>, <<"+">>, <<"a">>, <<"-", "a">>, <<"@", "@", " ", "a">>}

PatchTexts == {join(ls, <<"\n">>) : ls \in SeqsUpTo(PatchLinePool, MaxPatchLines)}

\* The Add File scenario of section 8.
ScenarioPath == <<"p", "a", "g", "e", "s", "/", "0", "1", "-", "a", ".", "m", "d">>
ScenarioPatch ==
    join(<<BEGIN_PATCH, ADD_FILE \o <<" ">> \o ScenarioPath,
           <<"+", "#", " ", "A">>, <<"+", "b", "o", "d", "y">>, END_PATCH>>, <<"\n">>)
ScenarioContent == <<"#", " ", "A", "\n", "b", "o", "d", "y", "\n">>

InitParse ==
    /\ patch \in PatchTexts \cup {ScenarioPatch}
    /\ parseResult = NoParseResult
    /\ ApplyIdle /\ SeekIdle /\ ToolsIdle /\ LoopIdle

ParsePatch ==
    /\ ~parseResult.done
    /\ LET r == parse_patch(patch)
       IN  parseResult' = [done |-> TRUE, ok |-> r.ok, operations |-> r.operations]
    /\ UNCHANGED <<loopVars, document, chunks, history, applyResult, seekArgs, seekResult,
                   patch, pageFiles, toolCall, toolResult, saved>>

NextParse == ParsePatch

SpecParse == InitParse /\ [][NextParse]_vars

PatchLines == str_lines(patch)

HasBeginMarker ==
    \E k \in 1..Len(PatchLines) : starts_with(trim(PatchLines[k]), BEGIN_PATCH)

HasFileDirective ==
    \E k \in 1..Len(PatchLines) :
        \/ starts_with(trim(PatchLines[k]), ADD_FILE)
        \/ starts_with(trim(PatchLines[k]), UPDATE_FILE)
        \/ starts_with(trim(PatchLines[k]), DELETE_FILE)

\* C1: an input in which no trimmed line starts with the begin marker is
\* answered with the parse error, and no operation is returned.
C1_NoBeginMarkerIsError ==
    (parseResult.done /\ ~HasBeginMarker) =>
        /\ ~parseResult.ok
        /\ parseResult.operations = <<>>

\* C1 witness: an input with file directives but no begin marker was parsed.
C1_Witness ==
    /\ parseResult.done /\ ~HasBeginMarker /\ HasFileDirective
    /\ ~parseResult.ok

\* The last line of the run of `+` lines that starts at line 3 (2 when none).
RECURSIVE PlusRunEnd(_, _)
PlusRunEnd(ls, k) ==
    IF k + 1 <= Len(ls) /\ starts_with(ls[k + 1], <<"+">>) THEN PlusRunEnd(ls, k + 1) ELSE k

\* Begin marker, Add File directive, then only `+` lines up to the next
\* `***` line or the end of the input.
AddFileShape ==
    /\ Len(PatchLines) >= 2
    /\ starts_with(trim(PatchLines[1]), BEGIN_PATCH)
    /\ starts_with(trim(PatchLines[2]), ADD_FILE)
    /\ LET e == PlusRunEnd(PatchLines, 2)
       IN  e = Len(PatchLines) \/ starts_with(PatchLines[e + 1], STARS)

RECURSIVE BodyContent(_, _, _)
BodyContent(ls, from, to) ==
    IF from > to THEN <<>>
    ELSE Tail(ls[from]) \o <<"\n">> \o BodyContent(ls, from + 1, to)

\* C9: for such a patch the first operation is an AddFile for the directive's
\* path whose content is the `+` lines in order, each without its `+` and
\* followed by one line feed; it is the only operation when the body runs to
\* the end marker or the end of the input.  The scenario's patch gives one
\* AddFile with content "# A\nbody\n".
C9_AddFileContent ==
    /\ (parseResult.done /\ AddFileShape) =>
          LET e == PlusRunEnd(PatchLines, 2)
              path == trim(strip_prefix(trim(PatchLines[2]), ADD_FILE))
          IN  /\ parseResult.ok
              /\ Len(parseResult.operations) >= 1
              /\ parseResult.operations[1] = AddFile(path, BodyContent(PatchLines, 3, e))
              /\ (e = Len(PatchLines) \/ starts_with(trim(PatchLines[e + 1]), END_PATCH))
                    => Len(parseResult.operations) = 1
    /\ (parseResult.done /\ patch = ScenarioPatch) =>
          parseResult.operations = <<AddFile(ScenarioPath, ScenarioContent)>>

\* C9 witness: an Add File body of a content line and a bare `+` was parsed.
C9_Witness ==
    /\ parseResult.done /\ AddFileShape
    /\ PlusRunEnd(PatchLines, 2) >= 4
    /\ \E k \in 3..PlusRunEnd(PatchLines, 2) : PatchLines[k] = <<"+">>
    /\ Len(parseResult.operations[1].content) >= 3

-----------------------------------------------------------------------------
(* ToolExecutor: edit_file                                                 *)

\* The pages directory maps a filename to the content of the file, or to
\* NoFile, which is no content, when there is no such file.
NoFile == <<"(no file)">>

\* str::replace(old, new): every occurrence replaced, left to right
RECURSIVE replace_every(_, _, _)
replace_every(s, old, new) ==
    IF old = <<>> THEN new \o s
    ELSE IF Len(s) < Len(old) THEN s
    ELSE IF SubSeq(s, 1, Len(old)) = old
    THEN new \o replace_every(SubSeq(s, Len(old) + 1, Len(s)), old, new)
    ELSE <<Head(s)>> \o replace_every(Tail(s), old, new)

\* str::replacen(old, new, 1): the first occurrence replaced
replacen_first(s, old, new) ==
    LET at == first_index({i \in 0..(Len(s) - Len(old)) : SubSeq(s, i + 1, i + Len(old)) = old})
    IN  IF at = None THEN s
        ELSE SubSeq(s, 1, at[1]) \o new \o SubSeq(s, at[1] + Len(old) + 1, Len(s))

\* load_page_content: fs::read_to_string fails on a missing file and on a
\* read fault of the store
load_page_content(files, filename, fault) ==
    IF filename \in DOMAIN files /\ files[filename] # NoFile /\ fault # "read"
    THEN [ok |-> TRUE, content |-> files[filename]]
    ELSE [ok |-> FALSE, content |-> <<>>]

\* save_page_content: the file is written unless the store faults
save_page_content(files, filename, content, fault) ==
    IF fault = "write" THEN [ok |-> FALSE, files |-> files]
    ELSE [ok |-> TRUE,
          files |-> [f \in DOMAIN files \cup {filename} |->
                        IF f = filename THEN content ELSE files[f]]]

ToolOutcome(name, success, files, did_save) ==
    [result |-> [tool_name |-> name, success |-> success], files |-> files, saved |-> did_save]

\* execute_edit_file without the test that old_content occurs in the page
execute_edit_file_unchecked(files, arguments, fault) ==
    LET loaded == load_page_content(files, arguments.filename, fault)
        updated_content == replacen_first(loaded.content, arguments.old_content,
                                          arguments.new_content)
        written == save_page_content(files, arguments.filename, updated_content, fault)
    IN  IF ~loaded.ok THEN ToolOutcome("edit_file", FALSE, files, FALSE)
        ELSE ToolOutcome("edit_file", written.ok, written.files, TRUE)

\* execute_edit_file of the generation agent
execute_edit_file(files, arguments, fault) ==
    LET loaded == load_page_content(files, arguments.filename, fault)
        current_content == loaded.content
        updated_content == replacen_first(current_content, arguments.old_content,
                                          arguments.new_content)
        written == save_page_content(files, arguments.filename, updated_content, fault)
    IN  IF ~loaded.ok THEN ToolOutcome("edit_file", FALSE, files, FALSE)
        ELSE IF ~contains(current_content, arguments.old_content)
        THEN ToolOutcome("edit_file", FALSE, files, FALSE)
        ELSE ToolOutcome("edit_file", written.ok, written.files, TRUE)

\* the "edit_file" arm of execute_editing_tool
editing_edit_file(files, arguments, fault) ==
    LET loaded == load_page_content(files, arguments.filename, fault)
        current_content == loaded.content
        updated_content == replacen_first(current_content, arguments.old_content,
                                          arguments.new_content)
        written == save_page_content(files, arguments.filename, updated_content, fault)
    IN  IF ~loaded.ok THEN ToolOutcome("edit_file", FALSE, files, FALSE)
        ELSE IF ~contains(current_content, arguments.old_content)
        THEN ToolOutcome("edit_file", FALSE, files, FALSE)
        ELSE ToolOutcome("edit_file", written.ok, written.files, TRUE)

-----------------------------------------------------------------------------
(* Tool calls executed against the pages of one project.  A tool call is   *)
(* left out when it would make a page longer than MaxContentLen.           *)

PageName == "01-a.md"
OtherName == "02-b.md"

PageContents == SeqsUpTo({"a", "b"}, MaxContentLen)

EditArguments ==
    [filename : {PageName, OtherName},
     old_content : SeqsUpTo({"a", "b"}, 2),
     new_content : {<<>>, <<"c">>}]

StoreFaults == {"none", "read", "write"}

InitTools ==
    /\ pageFiles \in [{PageName} -> PageContents \cup {NoFile}]
    /\ toolCall = NoToolCall /\ toolResult = NoToolResult /\ saved = FALSE
    /\ ApplyIdle /\ SeekIdle /\ ParseIdle /\ LoopIdle

WithinContentBound(files) ==
    \A f \in DOMAIN files : files[f] # NoFile => Len(files[f]) <= MaxContentLen

Executed(agent, name, arguments, outcome) ==
    /\ WithinContentBound(outcome.files)
    /\ toolCall' = [agent |-> agent, name |-> name, arguments |-> arguments]
    /\ toolResult' = outcome.result
    /\ pageFiles' = outcome.files
    /\ saved' = outcome.saved
    /\ UNCHANGED <<loopVars, document, chunks, history, applyResult, seekArgs, seekResult,
                   patch, parseResult>>

\* The generation agent executes an edit_file tool call.
ExecuteEditFile ==
    \E arguments \in EditArguments : \E fault \in StoreFaults :
        Executed("generation", "edit_file", arguments,
                 execute_edit_file(pageFiles, arguments, fault))

\* The editing agent executes an edit_file tool call.
ExecuteEditingEditFile ==
    \E arguments \in EditArguments : \E fault \in StoreFaults :
        Executed("editing", "edit_file", arguments,
                 editing_edit_file(pageFiles, arguments, fault))

NextTools == ExecuteEditFile \/ ExecuteEditingEditFile

SpecTools == InitTools /\ [][NextTools]_vars

\* The page the step's edit_file call names exists and its content, before
\* the step, does not hold the call's old_content.
EditMisses ==
    /\ toolCall'.name = "edit_file"
    /\ toolCall'.arguments.filename \in DOMAIN pageFiles
    /\ pageFiles[toolCall'.arguments.filename] # NoFile
    /\ ~contains(pageFiles[toolCall'.arguments.filename], toolCall'.arguments.old_content)

\* C10: in both tool sets, an edit_file whose old_content is not a substring
\* of the page's current content returns success = false, leaves every stored
\* page as it was and does not reach save_page_content.
C10_EditMissLeavesPage ==
    [][EditMisses => (/\ ~toolResult'.success
                      /\ toolResult'.tool_name = "edit_file"
                      /\ pageFiles' = pageFiles
                      /\ ~saved')]_vars

\* C10 witness: an edit_file of the editing agent has failed on an existing
\* page that does not hold old_content, after a successful edit changed it.
C10_Witness ==
    /\ toolCall.name = "edit_file" /\ toolCall.agent = "editing"
    /\ ~toolResult.success /\ ~saved
    /\ pageFiles[PageName] # NoFile
    /\ toolCall.arguments.filename = PageName
    /\ ~contains(pageFiles[PageName], toolCall.arguments.old_content)
    /\ contains(pageFiles[PageName], <<"c">>)

-----------------------------------------------------------------------------
(* Model responses.  A response text is a sequence of pieces: runs of      *)
(* running text and JSON objects, the latter bare, inside a ``` fence or   *)
(* inside <tool_call> tags.  A piece is `count` characters of `width`      *)
(* bytes each; the JSON objects are ASCII.                                  *)

\* &response[..response.len().min(200)]: the bytes of a response quoted back
PreviewBytes == 200

\* A JSON object text: whether serde_json parses it, whether the characters
\* "tool" occur in it, the string under the key tool and the object under the
\* key arguments (None when absent).
Json(valid, tool_key, tool, arguments) ==
    [valid |-> valid, tool_key |-> tool_key, tool |-> tool, arguments |-> arguments]

NoJson == Json(FALSE, FALSE, None, None)
NoArguments == [k \in {} |-> <<>>]

TextRun(width, count) == [kind |-> "text", width |-> width, count |-> count, json |-> NoJson]
TaggedBlock(json) == [kind |-> "tagged", width |-> 1, count |-> 40, json |-> json]
FencedBlock(json) == [kind |-> "fenced", width |-> 1, count |-> 40, json |-> json]
BareObject(json) == [kind |-> "bare", width |-> 1, count |-> 40, json |-> json]

\* A JSON object that is a well-formed tool call
CallJson(name, arguments) == Json(TRUE, TRUE, Some(name), Some(arguments))
\* {"tool": "name"}: a tool call without the arguments object
FlatCallJson(name) == Json(TRUE, TRUE, Some(name), None)

\* str::len(): the length in bytes
RECURSIVE byte_len(_)
byte_len(response) ==
    IF response = <<>> THEN 0
    ELSE Head(response).width * Head(response).count + byte_len(Tail(response))

\* str::is_char_boundary(index), for index <= len
RECURSIVE is_char_boundary(_, _)
is_char_boundary(response, index) ==
    IF response = <<>> THEN index = 0
    ELSE IF index >= Head(response).width * Head(response).count
    THEN is_char_boundary(Tail(response), index - Head(response).width * Head(response).count)
    ELSE index % Head(response).width = 0

\* A parse result: Ok(ToolCall), Err(String), or the panic of a str slice
\* taken off a character boundary.
ParsedCall(name, arguments) ==
    [status |-> "ok", call |-> [name |-> name, arguments |-> arguments]]
ParseErr == [status |-> "err", call |-> [name |-> "", arguments |-> NoArguments]]
ParsePanic == [status |-> "panic", call |-> [name |-> "", arguments |-> NoArguments]]

parse_tool_json(json) ==
    IF ~json.valid THEN ParseErr
    ELSE IF json.tool = None THEN ParseErr
    ELSE ParsedCall(json.tool[1],
                    IF json.arguments = None THEN NoArguments ELSE json.arguments[1])

\* \{[^{}]*"tool"[^{}]*\} : an object without inner braces that holds "tool"
is_flat_tool_object(piece) ==
    piece.kind # "text" /\ piece.json.tool_key /\ piece.json.arguments = None

parse_tool_call(response) ==
    LET tagged == first_index({i \in 1..Len(response) : response[i].kind = "tagged"})
        flat == first_index({i \in 1..Len(response) : is_flat_tool_object(response[i])})
        fenced == first_index({i \in 1..Len(response) : response[i].kind = "fenced"})
    IN  IF tagged # None THEN parse_tool_json(response[tagged[1]].json)
        ELSE IF flat # None THEN parse_tool_json(response[flat[1]].json)
        ELSE IF fenced # None THEN parse_tool_json(response[fenced[1]].json)
        ELSE IF is_char_boundary(response, Min(byte_len(response), PreviewBytes))
        THEN ParseErr
        ELSE ParsePanic

\* String::is_empty()
is_empty(response) == byte_len(response) = 0

\* truncate_text(first_line, 80): the bytes kept of the line that is shown
ThinkingBytes == 80

\* The text pieces a response begins with
RECURSIVE leading_text(_)
leading_text(response) ==
    IF response = <<>> \/ Head(response).kind # "text" THEN <<>>
    ELSE <<Head(response)>> \o leading_text(Tail(response))

\* The first line of a response that is neither a tag, a fence nor JSON: a
\* run of text pieces is one line, and the lines of a block are skipped.
RECURSIVE first_content_line(_)
first_content_line(response) ==
    IF response = <<>> THEN <<>>
    ELSE IF Head(response).kind = "text" THEN leading_text(response)
    ELSE first_content_line(Tail(response))

\* truncate_text: a text within max_len bytes is kept; a longer one is cut
\* by &trimmed[..max_len], which panics off a character boundary.
truncate_text(text, max_len) ==
    IF byte_len(text) <= max_len THEN "kept"
    ELSE IF is_char_boundary(text, max_len) THEN "cut"
    ELSE "panic"

\* extract_agent_thinking: "some" line to show, "none", or the panic of
\* truncate_text
extract_agent_thinking(response) ==
    IF is_empty(first_content_line(response)) THEN "none"
    ELSE IF truncate_text(first_content_line(response), ThinkingBytes) = "panic" THEN "panic"
    ELSE "some"

-----------------------------------------------------------------------------
(* The stored project: meta.json (page_order, title, description) and the  *)
(* pages directory.  A store fault makes the reads or the writes of one    *)
(* tool call fail.                                                          *)

Project(page_order, title, description, files) ==
    [page_order |-> page_order, title |-> title, description |-> description,
     files |-> files]

\* load_project and save_project
load_project(fault) == fault # "read"
save_project(fault) == fault # "write"

\* slug::slugify: ASCII letters are lowered, every other character that is
\* not alphanumeric becomes one '-', and no '-' leads or trails.
LowerCase == [c \in {"A", "B", "U"} |-> CASE c = "A" -> "a" [] c = "B" -> "b" [] c = "U" -> "u"]
AlphaNumeric == {"a", "b", "c", "d", "e", "i", "l", "n", "t", "u", "0", "1", "2"}

RECURSIVE slug_chars(_, _)
slug_chars(title, acc) ==
    IF title = <<>> THEN acc
    ELSE IF Head(title) \in DOMAIN LowerCase
    THEN slug_chars(Tail(title), Append(acc, LowerCase[Head(title)]))
    ELSE IF Head(title) \in AlphaNumeric
    THEN slug_chars(Tail(title), Append(acc, Head(title)))
    ELSE IF acc = <<>> \/ acc[Len(acc)] = "-"
    THEN slug_chars(Tail(title), acc)
    ELSE slug_chars(Tail(title), Append(acc, "-"))

RECURSIVE concat(_)
concat(chars) == IF chars = <<>> THEN "" ELSE Head(chars) \o concat(Tail(chars))

strip_trailing_dash(chars) ==
    IF chars # <<>> /\ chars[Len(chars)] = "-" THEN SubSeq(chars, 1, Len(chars) - 1) ELSE chars

slugify(title) == concat(strip_trailing_dash(slug_chars(title, <<>>)))

\* format!("{:02}-{}.md", page_num, slug::slugify(title))
page_filename(page_num, title) ==
    (IF page_num < 10 THEN "0" \o ToString(page_num) ELSE ToString(page_num))
        \o "-" \o slugify(title) \o ".md"

\* add_page_to_project
add_page_to_project(st, title, content, fault) ==
    LET page_name == page_filename(Len(st.page_order) + 1, title)
        written == save_page_content(st.files, page_name, content, fault)
    IN  IF ~load_project(fault) \/ ~written.ok \/ ~save_project(fault)
        THEN [ok |-> FALSE, filename |-> "", store |-> st]
        ELSE [ok |-> TRUE, filename |-> page_name,
              store |-> [st EXCEPT !.page_order = Append(@, page_name),
                                   !.files = written.files]]

\* Vec::retain(|p| p != filename)
RECURSIVE retain_other(_, _)
retain_other(names, filename) ==
    IF names = <<>> THEN <<>>
    ELSE IF Head(names) = filename THEN retain_other(Tail(names), filename)
    ELSE <<Head(names)>> \o retain_other(Tail(names), filename)

\* Vec::contains
vec_contains(names, filename) == \E i \in 1..Len(names) : names[i] = filename

\* fs::remove_file on a path that exists
remove_file(files, filename) == [f \in DOMAIN files \ {filename} |-> files[f]]

\* arguments.get(key).and_then(|v| v.as_str()).unwrap_or(default)
arg_str(arguments, key, default) ==
    IF key \in DOMAIN arguments THEN arguments[key] ELSE default

-----------------------------------------------------------------------------
(* ToolExecutor of the generation agent.  An executor returns the          *)
(* ToolResult, the agent state and the stored project it leaves.  pages is *)
(* the list of PageInfo, each given by its filename.                       *)

Untitled == <<"U", "n", "t", "i", "t", "l", "e", "d">>

Outcome(tool_name, success, state, st) ==
    [result |-> [tool_name |-> tool_name, success |-> success], state |-> state, store |-> st]

\* The three string arguments of edit_file, each defaulting to ""
edit_arguments(arguments) ==
    [filename |-> arg_str(arguments, "filename", ""),
     old_content |-> arg_str(arguments, "old_content", <<>>),
     new_content |-> arg_str(arguments, "new_content", <<>>)]

\* The outcome of an edit over the pages directory, as an Outcome
edit_outcome(edited, state, st) ==
    Outcome("edit_file", edited.result.success, state, [st EXCEPT !.files = edited.files])

\* create_file that does not push the new page onto state.pages
create_outcome_unlisted(added, state) ==
    Outcome("create_file", added.ok, state, added.store)

\* The outcome of add_page_to_project, as the Outcome of create_file
create_outcome(added, state) ==
    IF added.ok
    THEN Outcome("create_file", TRUE,
                 [state EXCEPT !.pages = Append(@, added.filename)], added.store)
    ELSE Outcome("create_file", FALSE, state, added.store)

execute_create_file(tool_call, state, st, fault) ==
    create_outcome(add_page_to_project(st, arg_str(tool_call.arguments, "title", Untitled),
                                       arg_str(tool_call.arguments, "content", <<>>), fault),
                   state)

execute_read_file(tool_call, state, st, fault) ==
    Outcome("read_file",
            load_page_content(st.files, arg_str(tool_call.arguments, "filename", ""), fault).ok,
            state, st)

execute_list_files(state, st) == Outcome("list_files", TRUE, state, st)

execute_set_book_info(tool_call, state, st, fault) ==
    LET title == arg_str(tool_call.arguments, "title", Untitled)
        named == [state EXCEPT !.book_title = Some(title)]
    IN  IF ~load_project(fault) \/ ~save_project(fault)
        THEN Outcome("set_book_info", FALSE, named, st)
        ELSE Outcome("set_book_info", TRUE, named,
                     [st EXCEPT !.title = title,
                                !.description = arg_str(tool_call.arguments, "description", <<>>)])

execute_finish(tool_call, state, st) ==
    Outcome("finish", TRUE, [state EXCEPT !.is_finished = TRUE], st)

\* execute_tool whose fallback arm reports success
execute_tool_unknown_succeeds(tool_call, state, st, fault) ==
    CASE tool_call.name = "create_file" -> execute_create_file(tool_call, state, st, fault)
      [] tool_call.name = "edit_file" ->
             edit_outcome(execute_edit_file(st.files, edit_arguments(tool_call.arguments), fault),
                          state, st)
      [] tool_call.name = "read_file" -> execute_read_file(tool_call, state, st, fault)
      [] tool_call.name = "list_files" -> execute_list_files(state, st)
      [] tool_call.name = "set_book_info" -> execute_set_book_info(tool_call, state, st, fault)
      [] tool_call.name = "finish" -> execute_finish(tool_call, state, st)
      [] OTHER -> Outcome(tool_call.name, TRUE, state, st)

execute_tool(tool_call, state, st, fault) ==
    CASE tool_call.name = "create_file" -> execute_create_file(tool_call, state, st, fault)
      [] tool_call.name = "edit_file" ->
             edit_outcome(execute_edit_file(st.files, edit_arguments(tool_call.arguments), fault),
                          state, st)
      [] tool_call.name = "read_file" -> execute_read_file(tool_call, state, st, fault)
      [] tool_call.name = "list_files" -> execute_list_files(state, st)
      [] tool_call.name = "set_book_info" -> execute_set_book_info(tool_call, state, st, fault)
      [] tool_call.name = "finish" -> execute_finish(tool_call, state, st)
      [] OTHER -> Outcome(tool_call.name, FALSE, state, st)

-----------------------------------------------------------------------------
(* ToolExecutor of the editing agent.                                       *)

DefaultRespondMessage == <<TextRun(1, 45)>>

\* execute_delete_file without the test on page_order
execute_delete_file_unchecked(tool_call, state, st, fault) ==
    LET filename == arg_str(tool_call.arguments, "filename", "") IN
    IF ~load_project(fault) THEN Outcome("delete_file", FALSE, state, st)
    ELSE IF filename \in DOMAIN st.files /\ fault = "write"
    THEN Outcome("delete_file", FALSE, state, st)
    ELSE IF ~save_project(fault)
    THEN Outcome("delete_file", FALSE, state, st)
    ELSE Outcome("delete_file", TRUE,
                 [state EXCEPT !.pages = retain_other(@, filename)],
                 [st EXCEPT !.page_order = retain_other(@, filename),
                            !.files = remove_file(@, filename)])

execute_delete_file(tool_call, state, st, fault) ==
    LET filename == arg_str(tool_call.arguments, "filename", "") IN
    IF ~load_project(fault) THEN Outcome("delete_file", FALSE, state, st)
    ELSE IF ~vec_contains(st.page_order, filename)
    THEN Outcome("delete_file", FALSE, state, st)
    ELSE IF filename \in DOMAIN st.files /\ fault = "write"
    THEN Outcome("delete_file", FALSE, state, st)
    ELSE IF ~save_project(fault)
    THEN Outcome("delete_file", FALSE, state, st)
    ELSE Outcome("delete_file", TRUE,
                 [state EXCEPT !.pages = retain_other(@, filename)],
                 [st EXCEPT !.page_order = retain_other(@, filename),
                            !.files = remove_file(@, filename)])

execute_respond(tool_call, state, st) ==
    Outcome("respond", TRUE,
            [state EXCEPT !.response_to_user =
                Some(arg_str(tool_call.arguments, "message", DefaultRespondMessage))],
            st)

\* the "list_files" arm: an empty page list is first refreshed from page_order
editing_list_files(state, st, fault) ==
    Outcome("list_files", TRUE,
            IF state.pages = <<>> /\ load_project(fault)
            THEN [state EXCEPT !.pages = st.page_order] ELSE state,
            st)

\* the "set_book_info" arm
editing_set_book_info(tool_call, state, st, fault) ==
    IF ~load_project(fault) \/ ~save_project(fault)
    THEN Outcome("set_book_info", FALSE, state, st)
    ELSE Outcome("set_book_info", TRUE, state,
                 [st EXCEPT !.title = arg_str(tool_call.arguments, "title", Untitled),
                            !.description = arg_str(tool_call.arguments, "description", <<>>)])

execute_editing_tool(tool_call, state, st, fault) ==
    CASE tool_call.name = "create_file" -> execute_create_file(tool_call, state, st, fault)
      [] tool_call.name = "edit_file" ->
             edit_outcome(editing_edit_file(st.files, edit_arguments(tool_call.arguments), fault),
                          state, st)
      [] tool_call.name = "read_file" -> execute_read_file(tool_call, state, st, fault)
      [] tool_call.name = "list_files" -> editing_list_files(state, st, fault)
      [] tool_call.name = "set_book_info" -> editing_set_book_info(tool_call, state, st, fault)
      [] tool_call.name = "delete_file" -> execute_delete_file(tool_call, state, st, fault)
      [] tool_call.name = "respond" -> execute_respond(tool_call, state, st)
      [] OTHER -> Outcome(tool_call.name, FALSE, state, st)

-----------------------------------------------------------------------------
(* The agent loops.  loop.state is the AgentState or EditingAgentState;    *)
(* loop.pc is "loop" at the while test, "summary" while the extra model    *)
(* call of the editing agent is awaited, and "returned", "failed" (a model *)
(* call failed and `?` returned the error) or "panicked" once the run is   *)
(* over.  loop.messages counts the transcript by kind of message and       *)
(* loop.appended lists the kinds pushed by the latest iteration, whose     *)
(* model reply, parse status and tool result are in loop.last.             *)
(* model_calls, summary_calls, tools_executed, log and start record the    *)
(* run: the chat_completion calls made in and after the loop, the tool     *)
(* calls handed to the executor, each with the store fault it met, and the *)
(* stored project the run began with; summary_reply is the reply to the    *)
(* extra model call.  pages_changed is the flag of that name of             *)
(* run_editing_agent.  The notifications are recorded as emitted:           *)
(* last.thinking and last.notice are the thinking line and the tool named  *)
(* by the notifications of the latest iteration, end_notice is the          *)
(* notification at the end of the run, and undelivered tells that an emit   *)
(* of the run returned an error.                                            *)

GenerationMaxIterations == 30
EditingMaxIterations == 10

AgentState(max_iterations) ==
    [pages |-> <<>>, book_title |-> None, is_finished |-> FALSE,
     iteration |-> 0, max_iterations |-> max_iterations]

EditingAgentState(page_order, max_iterations) ==
    [pages |-> page_order, iteration |-> 0, max_iterations |-> max_iterations,
     response_to_user |-> None]

NoLast ==
    [reply |-> None, parse |-> "none", executed |-> FALSE, tool |-> "", success |-> FALSE,
     thinking |-> "none", notice |-> None]

NewLoop(agent, state, st) ==
    [agent |-> agent, pc |-> "loop", state |-> state,
     messages |-> [assistant |-> 0, user_error |-> 0, tool_ok |-> 0, tool_failed |-> 0,
                   user_summary |-> 0],
     appended |-> <<>>, final_response |-> <<>>,
     model_calls |-> 0, summary_calls |-> 0, tools_executed |-> 0,
     last |-> NoLast, log |-> <<>>, start |-> st, summary_reply |-> None,
     pages_changed |-> FALSE, end_notice |-> "none", undelivered |-> FALSE]

\* let result = execute_tool(..) run twice over
run_tool_twice(agent, tool_call, state, st, fault) ==
    IF agent = "generation"
    THEN execute_tool(tool_call, execute_tool(tool_call, state, st, fault).state,
                      execute_tool(tool_call, state, st, fault).store, fault)
    ELSE execute_editing_tool(tool_call, execute_editing_tool(tool_call, state, st, fault).state,
                              execute_editing_tool(tool_call, state, st, fault).store, fault)

\* let result = execute_tool(&tool_call, &mut state), of either loop
run_tool(agent, tool_call, state, st, fault) ==
    IF agent = "generation"
    THEN execute_tool(tool_call, state, st, fault)
    ELSE execute_editing_tool(tool_call, state, st, fault)

\* The head of an iteration with iteration += 2
begin_iteration_by_two(l, reply) ==
    [l EXCEPT !.state.iteration = @ + 2, !.model_calls = @ + 1, !.appended = <<>>,
              !.last = [NoLast EXCEPT !.reply = Some(reply)]]

\* One more iteration begins: state.iteration += 1, then the model call.
begin_iteration(l, reply) ==
    [l EXCEPT !.state.iteration = @ + 1, !.model_calls = @ + 1, !.appended = <<>>,
              !.last = [NoLast EXCEPT !.reply = Some(reply)]]

\* messages.push of one message of the given kind
push_message(l, kind) ==
    [l EXCEPT !.messages[kind] = @ + 1, !.appended = Append(@, kind)]

result_kind(result) == IF result.success THEN "tool_ok" ELSE "tool_failed"

\* The while test of generate_learning_material, without the test on is_finished
generation_continues_after_finish(state) ==
    state.iteration < state.max_iterations

\* The while test of generate_learning_material
generation_continues(state) ==
    ~state.is_finished /\ state.iteration < state.max_iterations

\* Where the generation run stands after an iteration that ran to its end.
generation_next(l) ==
    IF generation_continues(l.state) THEN [l EXCEPT !.pc = "loop"]
    ELSE [l EXCEPT !.pc = "returned",
                   !.end_notice = IF l.state.is_finished THEN "complete" ELSE "wrapping_up"]

\* The notification emitted before a tool is executed
emit_tool_status(l, tool_name) == [l EXCEPT !.last.notice = Some(tool_name)]

\* The tool was executed: its result is pushed, and `break` if finished.
generation_after_tool(l, tool_call, outcome, fault) ==
    generation_next(
        push_message([l EXCEPT !.state = outcome.state,
                               !.tools_executed = @ + 1,
                               !.log = Append(@, <<tool_call, fault>>),
                               !.last = [@ EXCEPT !.parse = "ok", !.executed = TRUE,
                                                  !.tool = tool_call.name,
                                                  !.success = outcome.result.success]],
                     result_kind(outcome.result)))

\* generation_after_parse in which a response without a tool call gives its
\* iteration back
generation_after_parse_unconsumed(l, st, parsed, fault) ==
    IF parsed.status = "panic"
    THEN [loop |-> [l EXCEPT !.pc = "panicked", !.last.parse = "panic"], store |-> st]
    ELSE IF parsed.status = "err"
    THEN [loop |-> generation_next(push_message([l EXCEPT !.last.parse = "err",
                                                          !.state.iteration = @ - 1],
                                                "user_error")),
          store |-> st]
    ELSE [loop |-> generation_after_tool(emit_tool_status(l, parsed.call.name), parsed.call,
                       run_tool("generation", parsed.call, l.state, st, fault), fault),
          store |-> run_tool("generation", parsed.call, l.state, st, fault).store]

\* The response has been pushed and parsed.
generation_after_parse(l, st, parsed, fault) ==
    IF parsed.status = "panic"
    THEN [loop |-> [l EXCEPT !.pc = "panicked", !.last.parse = "panic"], store |-> st]
    ELSE IF parsed.status = "err"
    THEN [loop |-> generation_next(push_message([l EXCEPT !.last.parse = "err"], "user_error")),
          store |-> st]
    ELSE [loop |-> generation_after_tool(emit_tool_status(l, parsed.call.name), parsed.call,
                       run_tool("generation", parsed.call, l.state, st, fault), fault),
          store |-> run_tool("generation", parsed.call, l.state, st, fault).store]

\* One iteration of the loop of generate_learning_material.  reply is the
\* outcome of chat_completion: an error, or a response text.
generation_iteration(l, st, reply, fault) ==
    IF ~reply.ok
    THEN [loop |-> [begin_iteration(l, reply) EXCEPT !.pc = "failed"], store |-> st]
    ELSE IF extract_agent_thinking(reply.response) = "panic"
    THEN [loop |-> [begin_iteration(l, reply) EXCEPT !.pc = "panicked",
                                                     !.last.thinking = "panic"],
          store |-> st]
    ELSE generation_after_parse(
             push_message([begin_iteration(l, reply) EXCEPT
                               !.last.thinking = extract_agent_thinking(reply.response)],
                          "assistant"),
             st, parse_tool_call(reply.response), fault)

\* "I've made the requested changes to your learning material."
DefaultAcknowledgement == <<TextRun(1, 58)>>

\* The while test of run_editing_agent
editing_continues(state) ==
    state.iteration < state.max_iterations /\ state.response_to_user = None

\* After the loop of run_editing_agent: the respond message, when there is
\* one, is the final response; an empty final response asks for a summary.
editing_after_loop(l) ==
    LET final_response == IF l.state.response_to_user # None
                          THEN l.state.response_to_user[1]
                          ELSE l.final_response
    IN  IF is_empty(final_response)
        THEN [push_message(l, "user_summary") EXCEPT !.pc = "summary",
                                                     !.final_response = final_response]
        ELSE [l EXCEPT !.pc = "returned", !.final_response = final_response,
                       !.end_notice = "complete"]

\* Where the editing run stands after an iteration that ran to its end.
editing_next(l) ==
    IF editing_continues(l.state) THEN [l EXCEPT !.pc = "loop"] ELSE editing_after_loop(l)

\* pages_changed is set for create_file alone
marks_pages_changed_on_create(name) == name = "create_file"

\* matches!(tool_call.name.as_str(), "create_file" | "edit_file" | "delete_file")
marks_pages_changed(name) == name \in {"create_file", "edit_file", "delete_file"}

\* The tool was executed: `break` after respond, else its result is pushed.
editing_after_tool(l, tool_call, outcome, fault) ==
    IF tool_call.name = "respond"
    THEN editing_after_loop(
             [l EXCEPT !.state = outcome.state,
                       !.tools_executed = @ + 1,
                       !.pages_changed = @ \/ marks_pages_changed(tool_call.name),
                       !.log = Append(@, <<tool_call, fault>>),
                       !.final_response = outcome.state.response_to_user[1],
                       !.last = [@ EXCEPT !.parse = "ok", !.executed = TRUE,
                                          !.tool = tool_call.name,
                                          !.success = outcome.result.success]])
    ELSE editing_next(
             push_message([l EXCEPT !.state = outcome.state,
                                    !.tools_executed = @ + 1,
                                    !.pages_changed = @ \/ marks_pages_changed(tool_call.name),
                                    !.log = Append(@, <<tool_call, fault>>),
                                    !.last = [@ EXCEPT !.parse = "ok", !.executed = TRUE,
                                                       !.tool = tool_call.name,
                                                       !.success = outcome.result.success]],
                          result_kind(outcome.result)))

\* The response has been pushed and parsed.
editing_after_parse(l, st, response, parsed, fault) ==
    IF parsed.status = "panic"
    THEN [loop |-> [l EXCEPT !.pc = "panicked", !.last.parse = "panic"], store |-> st]
    ELSE IF parsed.status = "err"
    THEN [loop |-> editing_after_loop([l EXCEPT !.last.parse = "err",
                                                !.final_response = response]),
          store |-> st]
    ELSE [loop |-> editing_after_tool(emit_tool_status(l, parsed.call.name), parsed.call,
                       run_tool("editing", parsed.call, l.state, st, fault), fault),
          store |-> run_tool("editing", parsed.call, l.state, st, fault).store]

\* One iteration of the loop of run_editing_agent.
editing_iteration(l, st, reply, fault) ==
    IF ~reply.ok
    THEN [loop |-> [begin_iteration(l, reply) EXCEPT !.pc = "failed"], store |-> st]
    ELSE editing_after_parse(push_message(begin_iteration(l, reply), "assistant"), st,
                             reply.response, parse_tool_call(reply.response), fault)

\* The final response the summary reply gives: the message of a respond
\* tool call, else what it was (the empty string).
summary_message(parsed) ==
    IF parsed.status = "ok" /\ parsed.call.name = "respond"
          /\ "message" \in DOMAIN parsed.call.arguments
    THEN parsed.call.arguments["message"]
    ELSE <<>>

\* The extra model call without the fallback to the fixed acknowledgement
editing_summary_as_replied(l, reply, parsed) ==
    [l EXCEPT !.summary_calls = @ + 1, !.summary_reply = Some(reply),
              !.pc = IF reply.ok /\ parsed.status = "panic" THEN "panicked" ELSE "returned",
              !.end_notice = IF reply.ok /\ parsed.status = "panic" THEN "none" ELSE "complete",
              !.final_response = IF reply.ok THEN summary_message(parsed) ELSE <<>>]

\* The extra model call after the loop and what is made of its reply.
editing_summary(l, reply, parsed) ==
    IF ~reply.ok
    THEN [l EXCEPT !.summary_calls = @ + 1, !.summary_reply = Some(reply),
                   !.pc = "returned", !.final_response = DefaultAcknowledgement,
                   !.end_notice = "complete"]
    ELSE IF parsed.status = "panic"
    THEN [l EXCEPT !.summary_calls = @ + 1, !.summary_reply = Some(reply),
                   !.pc = "panicked"]
    ELSE [l EXCEPT !.summary_calls = @ + 1, !.summary_reply = Some(reply),
                   !.pc = "returned", !.end_notice = "complete",
                   !.final_response = IF is_empty(summary_message(parsed))
                                      THEN DefaultAcknowledgement
                                      ELSE summary_message(parsed)]

-----------------------------------------------------------------------------
(* Runs of the two agents.  The first MaxVariedReplies replies of a run    *)
(* are drawn from every reply of the pool; the later ones are text without *)
(* a tool call, a failed call, a tool outside both tool sets, or the call  *)
(* that ends the loop.                                                      *)

MaxVariedReplies == 2

ToolCallOf(name, arguments) == [name |-> name, arguments |-> arguments]

MessageHello == <<TextRun(1, 5)>>

CreateCall == ToolCallOf("create_file", [title |-> <<"A">>, content |-> <<"a">>])
EditCall == ToolCallOf("edit_file", [filename |-> PageName, old_content |-> <<"a">>,
                                     new_content |-> <<"b">>])
ReadCall == ToolCallOf("read_file", [filename |-> PageName])
ListCall == ToolCallOf("list_files", NoArguments)
BookInfoCall == ToolCallOf("set_book_info", [title |-> <<"B">>, description |-> <<"d">>])
FinishCall == ToolCallOf("finish", [summary |-> MessageHello])
DeleteCall(filename) == ToolCallOf("delete_file", [filename |-> filename])
RespondCall(message) == ToolCallOf("respond", [message |-> message])
RenameCall == ToolCallOf("rename_file", [filename |-> PageName])

\* A response with one tool call in <tool_call> tags after some thinking
Tagged(call) == <<TextRun(1, 12), TaggedBlock(CallJson(call.name, call.arguments))>>

VariedCalls ==
    {CreateCall, EditCall, ReadCall, ListCall, BookInfoCall, FinishCall,
     DeleteCall(PageName), DeleteCall(OtherName), RespondCall(MessageHello),
     RespondCall(<<>>), ToolCallOf("respond", NoArguments), RenameCall}

\* Responses in which parse_tool_call finds no tool call
PlainText == <<TextRun(1, 5)>>
EmptyText == <<>>
WideText == <<TextRun(2, 150)>>
SplitCharText == <<TextRun(1, 199), TextRun(2, 1)>>
NestedBareText == <<BareObject(CallJson("create_file", CreateCall.arguments))>>
InvalidJsonText == <<TaggedBlock(Json(FALSE, TRUE, None, None))>>
MissingToolText == <<TaggedBlock(Json(TRUE, FALSE, None, Some(NoArguments)))>>

UnparseableTexts ==
    {PlainText, EmptyText, WideText, SplitCharText, NestedBareText, InvalidJsonText,
     MissingToolText}

\* Responses that hold more than one tool call, or one outside the tags
SeveralCallTexts ==
    { <<TaggedBlock(CallJson("create_file", CreateCall.arguments)),
        TaggedBlock(CallJson("finish", FinishCall.arguments))>>,
      <<FencedBlock(CallJson("finish", FinishCall.arguments)),
        TaggedBlock(CallJson("list_files", NoArguments))>>,
      <<FencedBlock(CallJson("edit_file", EditCall.arguments)),
        BareObject(FlatCallJson("list_files"))>>,
      <<FencedBlock(CallJson("set_book_info", BookInfoCall.arguments))>> }

Reply(response) == [ok |-> TRUE, response |-> response]
FailedReply == [ok |-> FALSE, response |-> <<>>]

\* A line of 79 ASCII characters and one two-byte character: 81 bytes
SplitLineText == <<TextRun(1, 79), TextRun(2, 1)>>

VariedReplies ==
    {FailedReply, Reply(SplitLineText)}
        \cup {Reply(r) : r \in UnparseableTexts \cup SeveralCallTexts}
        \cup {Reply(Tagged(c)) : c \in VariedCalls}

LateTexts == {PlainText, EmptyText, SplitCharText}

\* The late replies of a generation run: finish is the one tool call.
LateGenerationReplies ==
    {FailedReply, Reply(Tagged(FinishCall))} \cup {Reply(r) : r \in LateTexts}

\* The late replies of an editing run: respond, or a tool outside the set.
LateEditingReplies ==
    {FailedReply} \cup {Reply(r) : r \in LateTexts}
        \cup {Reply(Tagged(c)) : c \in {RenameCall, RespondCall(MessageHello),
                                        RespondCall(<<>>)}}

\* The replies to the extra model call of an editing run.
SummaryReplies ==
    {FailedReply} \cup {Reply(r) : r \in LateTexts}
        \cup {Reply(Tagged(c)) : c \in {RenameCall, RespondCall(MessageHello),
                                        RespondCall(<<>>), ToolCallOf("respond", NoArguments),
                                        CreateCall, DeleteCall(PageName), BookInfoCall}}

RepliesAt(l) ==
    IF l.state.iteration < MaxVariedReplies THEN VariedReplies
    ELSE IF l.agent = "generation" THEN LateGenerationReplies
    ELSE LateEditingReplies

\* The store faults a tool call of the iteration can meet.
FaultsAt(l) ==
    IF l.state.iteration < MaxVariedReplies THEN StoreFaults ELSE {"none"}

NoFiles == [f \in {} |-> <<>>]

\* create_new_project(topic, "")
NewProject == Project(<<>>, <<"t">>, <<>>, NoFiles)

\* Projects a chat is run on: one page; one page and a file that page_order
\* does not list.
ChatProjects ==
    {Project(<<PageName>>, <<"t">>, <<"d">>, [f \in {PageName} |-> <<"a">>]),
     Project(<<PageName>>, <<"t">>, <<"d">>,
             [f \in {PageName, OtherName} |-> IF f = PageName THEN <<"a">> ELSE <<"b">>])}

InitAgents ==
    /\ \/ /\ store = NewProject
          /\ loop = NewLoop("generation", AgentState(GenerationMaxIterations), store)
       \/ /\ store \in ChatProjects
          /\ loop = NewLoop("editing",
                            EditingAgentState(store.page_order, EditingMaxIterations), store)
    /\ editStep = NoEditStep
    /\ ApplyIdle /\ SeekIdle /\ ParseIdle /\ ToolsIdle

\* What the step has emitted: the notifications of an iteration, or the one
\* at the end of the run.
step_emits(before, after) ==
    \/ after.model_calls > before.model_calls
          /\ (after.last.thinking = "some" \/ after.last.notice # None)
    \/ after.end_notice # before.end_notice

\* let _ = app.emit(..): the result of an emit is dropped
notified(before, next, emit_ok) ==
    [next EXCEPT !.loop.undelivered = @ \/ (~emit_ok /\ step_emits(before, next.loop))]

AgentStep(next) ==
    /\ loop' = next.loop
    /\ store' = next.store
    /\ UNCHANGED <<document, chunks, history, applyResult, seekArgs, seekResult,
                   patch, parseResult, pageFiles, toolCall, toolResult, saved, editStep>>

GenerationIteration ==
    /\ loop.agent = "generation" /\ loop.pc = "loop"
    /\ \E reply \in RepliesAt(loop) : \E fault \in FaultsAt(loop) : \E emit_ok \in BOOLEAN :
           AgentStep(notified(loop, generation_iteration(loop, store, reply, fault), emit_ok))

EditingIteration ==
    /\ loop.agent = "editing" /\ loop.pc = "loop"
    /\ \E reply \in RepliesAt(loop) : \E fault \in FaultsAt(loop) : \E emit_ok \in BOOLEAN :
           AgentStep(notified(loop, editing_iteration(loop, store, reply, fault), emit_ok))

\* The extra model call with its tool call handed to the executor
summary_step_executing(l, st, reply) ==
    [loop |-> editing_summary(l, reply, parse_tool_call(reply.response)),
     store |-> IF reply.ok /\ parse_tool_call(reply.response).status = "ok"
               THEN run_tool("editing", parse_tool_call(reply.response).call, l.state, st,
                             "none").store
               ELSE st]

\* The extra model call: the reply is parsed and nothing is executed.
summary_step(l, st, reply) ==
    [loop |-> editing_summary(l, reply, parse_tool_call(reply.response)), store |-> st]

EditingSummary ==
    /\ loop.agent = "editing" /\ loop.pc = "summary"
    /\ \E reply \in SummaryReplies : \E emit_ok \in BOOLEAN :
           AgentStep(notified(loop, summary_step(loop, store, reply), emit_ok))

NextAgents == GenerationIteration \/ EditingIteration \/ EditingSummary

SpecAgents == InitAgents /\ [][NextAgents]_vars

-----------------------------------------------------------------------------
(* Properties of the agent runs.                                            *)

\* The tool call the latest iteration executed and the store fault it met.
LastCall(l) == l.log[Len(l.log)][1]
LastFault(l) == l.log[Len(l.log)][2]

\* The step is an iteration that handed a tool call to the executor.
ExecutesTool == loop'.tools_executed = loop.tools_executed + 1

\* The step executes delete_file, in the editing agent, for a filename that
\* page_order does not hold.
DeleteMisses ==
    /\ loop.agent = "editing" /\ ExecutesTool
    /\ LastCall(loop').name = "delete_file"
    /\ ~vec_contains(store.page_order, arg_str(LastCall(loop').arguments, "filename", ""))

\* C11: delete_file for a filename that is not in page_order returns
\* success = false and leaves page_order, the page files and the in-memory
\* page list as they were.
C11_DeleteMissChangesNothing ==
    [][DeleteMisses => (/\ ~loop'.last.success
                        /\ loop'.last.tool = "delete_file"
                        /\ store'.page_order = store.page_order
                        /\ store'.files = store.files
                        /\ loop'.state.pages = loop.state.pages)]_vars

\* C11 witness: delete_file, with no store fault, has failed for a file that
\* is on disk but not in page_order, and the file is still there.
C11_Witness ==
    /\ loop.agent = "editing" /\ loop.last.executed /\ ~loop.last.success
    /\ loop.log # <<>>
    /\ LastCall(loop) = DeleteCall(OtherName) /\ LastFault(loop) = "none"
    /\ OtherName \in DOMAIN store.files
    /\ ~vec_contains(store.page_order, OtherName)

\* A generation run in which every model call so far has returned a response
\* and none of the responses parsed to a tool call.
OnlyUnparseableSoFar ==
    /\ loop.agent = "generation"
    /\ loop.pc # "failed"
    /\ loop.model_calls > 0
    /\ loop.tools_executed = 0 /\ loop.log = <<>>

\* C12 (as claimed): while every model response is unparseable, each response
\* has added exactly one corrective user message, no tool has been executed,
\* at most max_iterations model calls have been made, and the run is still in
\* its loop or has returned normally: it has not panicked.
C12_UnparseableRunReturns ==
    OnlyUnparseableSoFar =>
        /\ loop.messages.user_error = loop.model_calls
        /\ loop.messages.tool_ok = 0 /\ loop.messages.tool_failed = 0
        /\ loop.model_calls <= GenerationMaxIterations
        /\ loop.pc \in {"loop", "returned"}
        /\ (loop.pc = "returned" => loop.model_calls = GenerationMaxIterations)

\* Where a generation run stands, by is_finished and the iteration count: it
\* is at the while test only while neither stop condition holds, it has
\* returned only when one of them holds, and finish, once executed, is the
\* last tool call of the run.
GenerationStopRule(l) ==
    /\ l.state.iteration <= GenerationMaxIterations
    /\ l.pc = "loop" =>
           ~l.state.is_finished /\ l.state.iteration < GenerationMaxIterations
    /\ l.pc = "returned" =>
           l.state.is_finished \/ l.state.iteration = GenerationMaxIterations
    /\ l.state.is_finished =>
           /\ l.pc = "returned"
           /\ l.last.executed /\ l.last.tool = "finish"
           /\ LastCall(l).name = "finish"

\* C13: the generation loop stops at the first of the execution of finish
\* and the end of its 30th iteration; every step of a run (a model call,
\* with or without a tool execution) starts with finish not yet executed and
\* fewer than 30 iterations done, so that none follows the execution of
\* finish.
C13_GenerationStops ==
    [][loop.agent = "generation" =>
           /\ ~loop.state.is_finished
           /\ loop.state.iteration < GenerationMaxIterations
           /\ loop'.model_calls = loop.model_calls + 1
           /\ GenerationStopRule(loop')]_vars

\* C13 witness: finish was executed before the cap, after other iterations,
\* and the run has returned.
C13_Witness ==
    /\ loop.agent = "generation" /\ loop.pc = "returned"
    /\ loop.state.is_finished
    /\ loop.state.iteration > 1 /\ loop.state.iteration < GenerationMaxIterations
    /\ loop.messages.user_error > 0
    /\ loop.model_calls = loop.state.iteration

\* An editing run has its answer: respond has been executed, or the latest
\* response held no tool call.
Answered(l) == l.state.response_to_user # None \/ l.last.parse = "err"

\* C14 (as claimed): the editing loop is at its while test only while
\* respond has not been executed, no unparseable response has arrived and
\* fewer than 10 iterations are done; and no model call is issued once
\* respond has been executed or an unparseable response has arrived.
C14_EditingStops ==
    [][loop.agent = "editing" =>
           /\ ~Answered(loop)
           /\ loop'.state.iteration <= EditingMaxIterations
           /\ loop'.pc = "loop" =>
                  ~Answered(loop') /\ loop'.state.iteration < EditingMaxIterations]_vars

\* The editing loop has completed its 10th iteration without an answer: the
\* iteration executed a tool other than respond.
CapExhausted(l) ==
    /\ l.agent = "editing"
    /\ l.state.iteration = EditingMaxIterations
    /\ l.state.response_to_user = None
    /\ l.last.parse = "ok"

\* The respond message a reply to the summary call yields, if any.
YieldsMessage(reply) ==
    /\ reply.ok
    /\ \E i \in 1..Len(reply.response) :
           /\ reply.response[i].kind # "text"
           /\ reply.response[i].json.valid
           /\ reply.response[i].json.tool = Some("respond")
           /\ reply.response[i].json.arguments # None
           /\ "message" \in DOMAIN reply.response[i].json.arguments[1]
           /\ ~is_empty(reply.response[i].json.arguments[1]["message"])

YieldedMessage(reply) ==
    LET i == CHOOSE i \in 1..Len(reply.response) :
                 reply.response[i].kind # "text" /\ reply.response[i].json.tool = Some("respond")
    IN  reply.response[i].json.arguments[1]["message"]

\* C15 (as claimed): after the 10th iteration has ended with no answer, one
\* extra model call is issued; once it has been answered the run has
\* returned, and its final response is the respond message of the reply
\* when the reply yields one and the default acknowledgement otherwise; a
\* run issues at most 11 model calls.
C15_SummaryAfterCap ==
    /\ loop.agent = "editing" =>
           loop.model_calls + loop.summary_calls <= EditingMaxIterations + 1
    /\ CapExhausted(loop) =>
           /\ loop.pc \in {"summary", "returned"}
           /\ loop.pc = "summary" => loop.summary_calls = 0 /\ loop.messages.user_summary = 1
           /\ loop.pc = "returned" =>
                  /\ loop.summary_calls = 1
                  /\ loop.final_response =
                         IF YieldsMessage(loop.summary_reply[1])
                         THEN YieldedMessage(loop.summary_reply[1])
                         ELSE DefaultAcknowledgement

\* What parse_tool_call makes of the reply of the latest iteration.
LastParsed(l) == parse_tool_call(l.last.reply[1].response)

\* The number of JSON objects with a tool name in a response.
ToolCallBlocks(response) ==
    Cardinality({i \in 1..Len(response) :
                    response[i].kind # "text" /\ response[i].json.tool # None})

StartState(l) ==
    IF l.agent = "generation" THEN AgentState(GenerationMaxIterations)
    ELSE EditingAgentState(l.start.page_order, EditingMaxIterations)

\* The stored project after the tool calls of a log, executed one after the
\* other, each once, from the agent state and stored project given.
RECURSIVE Replay(_, _, _, _)
Replay(agent, log, state, st) ==
    IF log = <<>> THEN st
    ELSE IF agent = "generation"
    THEN Replay(agent, Tail(log),
                execute_tool(Head(log)[1], state, st, Head(log)[2]).state,
                execute_tool(Head(log)[1], state, st, Head(log)[2]).store)
    ELSE Replay(agent, Tail(log),
                execute_editing_tool(Head(log)[1], state, st, Head(log)[2]).state,
                execute_editing_tool(Head(log)[1], state, st, Head(log)[2]).store)

\* C17: when a loop has exited, by a normal return, a failed model call or
\* otherwise, the stored project is the one the run began with after exactly
\* the executed tool calls, in the order of the transcript, each applied
\* once.
C17_StoreIsReplayOfExecutedCalls ==
    (loop.agent # "none" /\ loop.pc # "loop") =>
        store = Replay(loop.agent, loop.log, StartState(loop), loop.start)

\* C17 witness: a generation run has created a page, edited it, and then
\* ended on a failed model call; the page holds the edited content.
C17_Witness ==
    /\ loop.agent = "generation" /\ loop.pc = "failed"
    /\ Len(loop.log) = 2
    /\ loop.log[1] = <<CreateCall, "none">> /\ loop.log[2] = <<EditCall, "none">>
    /\ store.page_order = <<PageName>>
    /\ store.files[PageName] = <<"b">>
    /\ store # loop.start

\* The closed tool sets of the two loops.
GenerationTools ==
    {"create_file", "edit_file", "read_file", "list_files", "set_book_info", "finish"}
EditingTools == (GenerationTools \ {"finish"}) \cup {"delete_file", "respond"}
ToolSet(agent) == IF agent = "generation" THEN GenerationTools ELSE EditingTools

\* The terminal marker of a loop: is_finished, or a response_to_user.
TerminalMarker(l) ==
    IF l.agent = "generation" THEN l.state.is_finished
    ELSE l.state.response_to_user # None

\* The step executes a tool call whose name is outside the loop's tool set.
ExecutesUnknownTool ==
    /\ loop.pc = "loop" /\ ExecutesTool
    /\ LastCall(loop').name \notin ToolSet(loop.agent)

\* C18: a parsed tool call with a name outside the loop's tool set gives a
\* ToolResult with success = false under that name, leaves the stored
\* project, the page list and the terminal marker as they were, is pushed to
\* the transcript as a failed tool result, and the loop goes on to its next
\* iteration (it ends only if this was its last iteration).
C18_UnknownToolFailsAndLoopGoesOn ==
    [][ExecutesUnknownTool =>
           /\ ~loop'.last.success
           /\ loop'.last.tool = LastCall(loop').name
           /\ store' = store
           /\ loop'.state.pages = loop.state.pages
           /\ TerminalMarker(loop') = TerminalMarker(loop)
           /\ SubSeq(loop'.appended, 1, 2) = <<"assistant", "tool_failed">>
           /\ loop'.messages.tool_failed = loop.messages.tool_failed + 1
           /\ loop'.pc \notin {"failed", "panicked"}
           /\ loop'.state.iteration < loop'.state.max_iterations => loop'.pc = "loop"]_vars

\* C18 witness: the editing loop was handed finish, which is outside its tool
\* set, as the second tool call of the run; the call failed and the loop is
\* at its while test again.
C18_Witness ==
    /\ loop.agent = "editing" /\ loop.pc = "loop"
    /\ loop.tools_executed = 2
    /\ LastCall(loop) = FinishCall
    /\ ~loop.last.success /\ loop.last.tool = "finish"
    /\ loop.appended = <<"assistant", "tool_failed">>

-----------------------------------------------------------------------------
(* execute_edit_file beside another writer of the pages directory.  The    *)
(* tool reads the page, tests it and writes it back in three steps with no *)
(* lock on the file; another process may write the page between any two.   *)

EditStep(pc, current_content, updated_content, written, content, at) ==
    [pc |-> pc, current_content |-> current_content,
     updated_content |-> updated_content,
     external |-> [written |-> written, content |-> content, at |-> at]]

InitRace ==
    /\ pageFiles \in [{PageName} -> PageContents]
    /\ \E arguments \in EditArguments :
          toolCall = [agent |-> "generation", name |-> "edit_file", arguments |-> arguments]
    /\ toolResult = NoToolResult /\ saved = FALSE
    /\ editStep = EditStep("read", <<>>, <<>>, FALSE, <<>>, "none")
    /\ loop = NoLoop /\ store = NoStore
    /\ ApplyIdle /\ SeekIdle /\ ParseIdle

RaceStep(step, files, result, did_save) ==
    /\ editStep' = step
    /\ pageFiles' = files
    /\ toolResult' = result
    /\ saved' = did_save
    /\ UNCHANGED <<loop, store, toolCall, document, chunks, history, applyResult,
                   seekArgs, seekResult, patch, parseResult>>

EditFailed == [tool_name |-> "edit_file", success |-> FALSE]

edit_after_read(loaded) ==
    IF loaded.ok
    THEN RaceStep([editStep EXCEPT !.pc = "check", !.current_content = loaded.content],
                  pageFiles, toolResult, saved)
    ELSE RaceStep([editStep EXCEPT !.pc = "done"], pageFiles, EditFailed, saved)

\* execute_edit_file, load_page_content and its match
EditRead ==
    /\ editStep.pc = "read"
    /\ \E fault \in {"none", "read"} :
          edit_after_read(load_page_content(pageFiles, toolCall.arguments.filename, fault))

\* execute_edit_file, the contains test and replacen
EditCheck ==
    /\ editStep.pc = "check"
    /\ IF ~contains(editStep.current_content, toolCall.arguments.old_content)
       THEN RaceStep([editStep EXCEPT !.pc = "done"], pageFiles, EditFailed, saved)
       ELSE RaceStep([editStep EXCEPT !.pc = "write",
                                      !.updated_content =
                                          replacen_first(editStep.current_content,
                                                         toolCall.arguments.old_content,
                                                         toolCall.arguments.new_content)],
                     pageFiles, toolResult, saved)

edit_after_write(written) ==
    RaceStep([editStep EXCEPT !.pc = "done"], written.files,
             [tool_name |-> "edit_file", success |-> written.ok], TRUE)

\* execute_edit_file, save_page_content and its match
EditWrite ==
    /\ editStep.pc = "write"
    /\ \E fault \in {"none", "write"} :
          edit_after_write(save_page_content(pageFiles, toolCall.arguments.filename,
                                             editStep.updated_content, fault))

\* Another writer replaces the content of the page, once, before one of the
\* three steps of the edit_file call in progress.
ExternalWrite ==
    /\ editStep.pc \in {"read", "check", "write"}
    /\ ~editStep.external.written
    /\ \E content \in PageContents :
          /\ content # pageFiles[PageName]
          /\ RaceStep([editStep EXCEPT !.external =
                           [written |-> TRUE, content |-> content, at |-> editStep.pc]],
                      [pageFiles EXCEPT ![PageName] = content], toolResult, saved)

NextRace == EditRead \/ EditCheck \/ EditWrite \/ ExternalWrite

SpecRace == InitRace /\ [][NextRace]_vars

\* The edit_file call has returned, another writer changed the page the call
\* names while the call was in progress, and the content it wrote does not
\* hold the call's old_content.
ConcurrentChangeInvalidates ==
    /\ editStep.pc = "done"
    /\ editStep.external.written
    /\ toolCall.arguments.filename = PageName
    /\ ~contains(editStep.external.content, toolCall.arguments.old_content)

\* C19: when another writer changes a page concurrently with an edit_file so
\* that old_content is no longer a substring of the stored page, edit_file
\* returns success = false and the page keeps the content the other writer
\* gave it, wherever the external write falls among the read, the substring
\* test and the write of edit_file.
C19_ConcurrentChangeFailsClosed ==
    ConcurrentChangeInvalidates =>
        /\ ~toolResult.success
        /\ pageFiles[PageName] = editStep.external.content


\* The external write fell before the read of edit_file: the tool then sees
\* the changed page, and fails closed.
ChangeBeforeReadFailsClosed ==
    (ConcurrentChangeInvalidates /\ editStep.external.at = "read") =>
        /\ ~toolResult.success
        /\ pageFiles[PageName] = editStep.external.content

\* The page "a" was read and tested for "a"; another writer then stored "b";
\* edit_file wrote "c" over it and returned success.
LostUpdate ==
    /\ ConcurrentChangeInvalidates
    /\ toolCall.arguments.old_content = <<"a">>
    /\ toolCall.arguments.new_content = <<"c">>
    /\ editStep.current_content = <<"a">>
    /\ editStep.external.content = <<"b">>
    /\ editStep.external.at = "write"
    /\ toolResult.success
    /\ pageFiles[PageName] = <<"c">>

-----------------------------------------------------------------------------
(* The iteration counter of the two loops.                                 *)

MaxIterationsOf(agent) ==
    IF agent = "generation" THEN GenerationMaxIterations ELSE EditingMaxIterations

IterationWithinBounds ==
    loop.agent # "none" =>
        /\ loop.state.max_iterations = MaxIterationsOf(loop.agent)
        /\ 0 <= loop.state.iteration
        /\ loop.state.iteration <= loop.state.max_iterations

\* A step of a run: iteration does not decrease, and grows by one exactly
\* when the step made a model call inside the loop (the call for a summary
\* after the editing loop is outside it).
IterationCountsLoopCalls ==
    loop.agent # "none" =>
        /\ loop'.state.iteration >= loop.state.iteration
        /\ loop'.model_calls - loop.model_calls \in {0, 1}
        /\ loop'.state.iteration - loop.state.iteration = loop'.model_calls - loop.model_calls
        /\ (loop.pc = "loop") = (loop'.model_calls = loop.model_calls + 1)

\* C20: in every reachable state of either loop 0 <= iteration <=
\* max_iterations (30 for generation, 10 for editing), and over every step
\* iteration never decreases and grows by exactly one per model call made
\* inside the loop.
C20_IterationMonotonicAndBounded ==
    [](IterationWithinBounds) /\ [][IterationCountsLoopCalls]_vars

\* C20 witness: the editing loop made ten model calls, iteration is at
\* max_iterations, and the summary call made after the loop left it there.
C20_Witness ==
    /\ loop.agent = "editing" /\ loop.pc = "returned"
    /\ loop.summary_calls = 1
    /\ loop.model_calls = EditingMaxIterations
    /\ loop.state.iteration = loop.state.max_iterations

-----------------------------------------------------------------------------
(* Properties of an application of several chunks.                         *)

\* The replacements compute_replacements gives for the applied chunk list.
Replacements == compute_replacements(InputLines, chunks).value

\* The inserted lines in the order apply_replacements records their numbers:
\* the new segments of the replacements, last replacement first.
RECURSIVE recorded_lines(_, _)
recorded_lines(replacements, k) ==
    IF k = 0 THEN <<>>
    ELSE replacements[k][3] \o recorded_lines(replacements, k - 1)

SeveralChunks == Applied /\ Len(chunks) >= 2 /\ applyResult.status = "ok"

\* C21: with several chunks, every number in inserted_line_numbers is the
\* final 1-indexed position, in the returned document, of the inserted line
\* it was recorded for: the returned document holds that line at that
\* position, also for a chunk at a later position once the replacements at
\* earlier positions have been applied.
C21_NumbersAreFinalPositions ==
    SeveralChunks =>
        LET out == TextLines(applyResult.text)
            recorded == recorded_lines(Replacements, Len(Replacements))
        IN  /\ Len(applyResult.numbers) = Len(recorded)
            /\ \A k \in 1..Len(recorded) :
                  /\ applyResult.numbers[k] \in 1..Len(out)
                  /\ out[applyResult.numbers[k]] = recorded[k]

\* For the text "A\nB", an insertion of X at the cursor and then B replaced
\* by X: the numbers are [2, 1] and the returned lines X, A, X, so the line
\* recorded under 2 ended at position 3.
StaleNumber ==
    /\ SeveralChunks
    /\ InputLines = <<LineA, LineB>>
    /\ chunks = <<Chunk(None, <<>>, <<LineX>>, FALSE), Chunk(None, <<LineB>>, <<LineX>>, FALSE)>>
    /\ applyResult.numbers = <<2, 1>>
    /\ original_lines_of(applyResult.text) = <<LineX, LineA, LineX>>


\* C22: for every document and chunk list each replacement of
\* compute_replacements has start <= document length, and apply_replacements
\* does not insert past the end of the line list (it does not panic), also
\* when a fuzzy-anchored chunk has moved the cursor beyond the document
\* length and the following chunk falls back to insertion at the cursor.
C22_StartsWithinDocument ==
    Applied =>
        /\ \A k \in 1..Len(Replacements) : Replacements[k][1] <= Len(InputLines)
        /\ applyResult.status # "panic"

\* For the text "A", old_lines [A, A] is anchored at line 0 and moves the
\* cursor to 2; the next chunk's old_lines [B] is not found and its X is to
\* be inserted at 2 in a list of one line: Vec::insert panics.
InsertPastEnd ==
    /\ Applied
    /\ InputLines = <<LineA>>
    /\ chunks = <<Chunk(None, <<LineA, LineA>>, <<>>, FALSE),
                  Chunk(None, <<LineB>>, <<LineX>>, FALSE)>>
    /\ Replacements = << <<0, 2, <<>> >>, <<2, 0, <<LineX>> >> >>
    /\ applyResult.status = "panic"

-----------------------------------------------------------------------------
(* create_file and delete_file executed one after another by the editing   *)
(* agent's executor on one stored project.                                *)

MaxPageOps == 4

PageTitles == {<<"A">>, <<"B">>}
PageBodies == {<<"a">>, <<"b">>}

\* The agent state beside the store, and the number of tools executed.
PagesRun(state, executed) == [agent |-> "pages", state |-> state, executed |-> executed]

InitPages ==
    /\ store \in {NewProject} \cup ChatProjects
    /\ loop = PagesRun(EditingAgentState(store.page_order, EditingMaxIterations), 0)
    /\ editStep = NoEditStep
    /\ ApplyIdle /\ SeekIdle /\ ParseIdle /\ ToolsIdle

PageToolExecuted(tool_call, outcome) ==
    /\ toolCall' = [agent |-> "editing", name |-> tool_call.name,
                    arguments |-> tool_call.arguments]
    /\ toolResult' = outcome.result
    /\ store' = outcome.store
    /\ loop' = PagesRun(outcome.state, loop.executed + 1)
    /\ UNCHANGED <<document, chunks, history, applyResult, seekArgs, seekResult,
                   patch, parseResult, pageFiles, saved, editStep>>

ExecutePageTool(tool_call, fault) ==
    PageToolExecuted(tool_call, execute_editing_tool(tool_call, loop.state, store, fault))

\* execute_editing_tool on a create_file call
ExecuteCreateFile ==
    /\ loop.agent = "pages" /\ loop.executed < MaxPageOps
    /\ \E title \in PageTitles : \E content \in PageBodies : \E fault \in StoreFaults :
          ExecutePageTool(ToolCallOf("create_file", [title |-> title, content |-> content]),
                          fault)

\* execute_editing_tool on a delete_file call, for a listed page or for a
\* name that is no page
ExecuteDeleteFile ==
    /\ loop.agent = "pages" /\ loop.executed < MaxPageOps
    /\ \E filename \in {store.page_order[i] : i \in 1..Len(store.page_order)} \cup {OtherName} :
          \E fault \in StoreFaults :
              ExecutePageTool(DeleteCall(filename), fault)

NextPages == ExecuteCreateFile \/ ExecuteDeleteFile

SpecPages == InitPages /\ [][NextPages]_vars

NoDuplicate(names) ==
    \A i \in 1..Len(names) : \A j \in 1..Len(names) : names[i] = names[j] => i = j

\* The step is a create_file that returned success.
CreatedPage ==
    /\ toolCall'.name = "create_file" /\ toolResult'.success
    /\ loop'.executed = loop.executed + 1

\* C23: after any sequence of create_file and delete_file executions
\* page_order holds no filename twice, and a successful create_file allocates
\* a filename that was not in page_order, so that it does not overwrite the
\* content of a page that exists.
C23_FilenamesStayDistinct ==
    /\ [](NoDuplicate(store.page_order))
    /\ [][CreatedPage =>
             LET allocated == store'.page_order[Len(store'.page_order)] IN
             /\ ~vec_contains(store.page_order, allocated)
             /\ \A i \in 1..Len(store.page_order) :
                   LET f == store.page_order[i] IN
                   f \in DOMAIN store.files => store'.files[f] = store.files[f]]_vars

\* Pages 01-a.md and 02-a.md; 01-a.md was deleted; a page titled A was then
\* created as 02-a.md again: listed twice, the older content overwritten.
ReusedFilename ==
    /\ loop.agent = "pages"
    /\ toolCall.name = "create_file" /\ toolResult.success
    /\ toolCall.arguments.content = <<"b">>
    /\ store.page_order = <<"02-a.md", "02-a.md">>
    /\ store.files["02-a.md"] = <<"b">>

-----------------------------------------------------------------------------
(* Properties of the Add File body.                                        *)

\* The begin marker in line 1 and an Add File directive in line 2.
AddFileAtTwo ==
    /\ parseResult.done
    /\ Len(PatchLines) >= 2
    /\ starts_with(trim(PatchLines[1]), BEGIN_PATCH)
    /\ starts_with(trim(PatchLines[2]), ADD_FILE)

\* C24: while an Add File body is accumulated, a line with no `+` prefix
\* (that is not `***`-prefixed) ends the accumulation: the content is that of
\* the `+` lines up to the first such line, and `+` lines that follow it are
\* not part of the file's content.
C24_UnprefixedLineEndsBody ==
    AddFileAtTwo =>
        /\ parseResult.ok /\ Len(parseResult.operations) >= 1
        /\ parseResult.operations[1].type = "AddFile"
        /\ parseResult.operations[1].content
              = BodyContent(PatchLines, 3, PlusRunEnd(PatchLines, 2))

\* An Add File body of the line "a" and then the line "+a": the content is
\* "a\n", the `+` line after the unprefixed line was taken.
BodyAcrossUnprefixedLine ==
    /\ AddFileAtTwo
    /\ Len(PatchLines) = 4
    /\ PatchLines[3] = <<"a">> /\ PatchLines[4] = <<"+", "a">>
    /\ parseResult.operations = <<AddFile(<<"p">>, <<"a", "\n">>)>>

-----------------------------------------------------------------------------
(* The order of the lookups for a chunk with old_lines.                    *)

\* The single chunk applied, and the cursor it is looked up from: 0 moved
\* behind the chunk's change_context when that is found.
TheChunk == chunks[1]
Cursor == anchor_context(InputLines, TheChunk, 0)

OneChunkWithOldLines == Applied /\ Len(chunks) = 1 /\ TheChunk.old_lines # <<>>

\* 1: seek_sequence at the cursor
Sought == seek_sequence(InputLines, TheChunk.old_lines, Cursor, TheChunk.is_end_of_file)

\* 2: the same with a trailing empty old line dropped
SoughtShortened ==
    LET old == TheChunk.old_lines IN
    IF old[Len(old)] = <<>>
    THEN seek_sequence(InputLines, SubSeq(old, 1, Len(old) - 1), Cursor, TheChunk.is_end_of_file)
    ELSE None

LooselyMatches(orig, old) ==
    trim(orig) = trim(old) \/ contains(trim(orig), trim(old)) \/ contains(trim(old), trim(orig))

\* 3: the fuzzy anchor on the first non-blank old line, accepted when the
\* first old line loosely matches the line at the anchor
Anchored ==
    LET old == TheChunk.old_lines
        significant == {k \in 1..Len(old) : trim(old[k]) # <<>>}
    IN  IF significant = {} THEN None
        ELSE LET anchor == find_line_fuzzy(InputLines, old[Least(significant)])
             IN  IF anchor # None /\ LooselyMatches(InputLines[anchor[1] + 1], old[1])
                 THEN anchor ELSE None

\* The lookup that comes first in this order and succeeds, or None.
FirstSuccess ==
    IF Sought # None THEN Sought
    ELSE IF SoughtShortened # None THEN SoughtShortened
    ELSE Anchored

\* C25: for a chunk with non-empty old_lines the replacement starts where
\* the first successful lookup found it, the lookups taken in the order
\* seek_sequence at the cursor, the same with a trailing empty old line
\* dropped, the fuzzy anchor on the first non-blank old line (accepted only
\* with a loose match from the anchor); when all fail new_lines is inserted
\* at the cursor if cursor > 0 and else appended at the document end, and
\* these two fallbacks remove no line and leave the cursor where it was.
C25_LookupOrder ==
    OneChunkWithOldLines =>
        LET rep == compute_loop(InputLines, chunks, <<>>, 0)[1]
            after == chunk_step(InputLines, TheChunk, 0).line_index
        IN  /\ rep[3] = TheChunk.new_lines
            /\ FirstSuccess # None => rep[1] = FirstSuccess[1]
            /\ (FirstSuccess = None /\ Cursor > 0) =>
                  rep[1] = Cursor /\ rep[2] = 0 /\ after = Cursor
            /\ (FirstSuccess = None /\ Cursor = 0) =>
                  rep[1] = Len(InputLines) /\ rep[2] = 0 /\ after = Cursor

\* C25 witness: the words of the anchor line agree with the old line's but
\* neither holds the other, so the anchor was refused; the cursor, behind
\* the context line, was short of the document end and took the insertion.
C25_Witness ==
    /\ OneChunkWithOldLines /\ applyResult.status = "ok"
    /\ TheChunk.old_lines = <<LineAWideB>>
    /\ find_line_fuzzy(InputLines, LineAWideB) # None
    /\ FirstSuccess = None
    /\ Cursor > 0 /\ Cursor < Len(InputLines)
    /\ applyResult.numbers = <<Cursor + 1>>


\* The line list apply_replacements returns for the applied chunk list.
AppliedLines == apply_replacements(InputLines, Replacements).lines

\* The single chunk was located by the retry without its trailing empty old
\* line, and by nothing before it.
LocatedByRetryOnly ==
    /\ OneChunkWithOldLines /\ applyResult.status = "ok"
    /\ Sought = None /\ SoughtShortened # None

\* C26: when old_lines is located only by the retry that drops its trailing
\* empty line, the replacement removes only the document lines that matched
\* the shortened pattern: the returned lines are the lines before the match,
\* new_lines, and every line after the match, the one that follows it too.
C26_RetryRemovesShortenedMatch ==
    LocatedByRetryOnly =>
        LET at == SoughtShortened[1]
            matched == Len(TheChunk.old_lines) - 1
        IN  AppliedLines
               = SubSeq(InputLines, 1, at) \o TheChunk.new_lines
                   \o SubSeq(InputLines, at + matched + 1, Len(InputLines))

\* For the lines A, B and old_lines [A, ""] with new_lines [X] the retry
\* finds A at line 0; the returned document is the line X alone.
RetryRemovesFollowingLine ==
    /\ LocatedByRetryOnly
    /\ InputLines = <<LineA, LineB>>
    /\ TheChunk = Chunk(None, <<LineA, LineEmpty>>, <<LineX>>, FALSE)
    /\ AppliedLines = <<LineX>>

-----------------------------------------------------------------------------
(* Pure insertions: chunks with no old_lines.                              *)

\* The replacements in chunk order, as pushed, before they are sorted.
Pushed == compute_loop(InputLines, chunks, <<>>, 0)

\* line_index when the loop over the chunks reaches chunk k.
RECURSIVE cursor_before(_)
cursor_before(k) ==
    IF k = 1 THEN 0
    ELSE chunk_step(InputLines, chunks[k - 1], cursor_before(k - 1)).line_index

\* The cursor of chunk k: line_index once its change_context is looked up.
cursor_of(k) == anchor_context(InputLines, chunks[k], cursor_before(k))

PureInsertions == {k \in 1..Len(chunks) : chunks[k].old_lines = <<>>}

insertion_index(k) ==
    IF chunks[k].is_end_of_file THEN Len(InputLines)
    ELSE IF cursor_of(k) <= Len(InputLines) THEN cursor_of(k) ELSE Len(InputLines)

\* C27: for a chunk with empty old_lines compute_replacements records
\* (index, 0, new_lines) with index = document length if is_end_of_file,
\* else min(cursor, document length); the replacement removes no line (a
\* lone insertion returns every line of the document, new_lines put in at
\* index), and the following chunk is looked up from the unchanged cursor.
C27_PureInsertion ==
    Applied =>
        \A k \in PureInsertions :
            /\ Pushed[k] = <<insertion_index(k), 0, chunks[k].new_lines>>
            /\ k < Len(chunks) =>
                  /\ cursor_before(k + 1) = cursor_of(k)
                  /\ Pushed[k + 1] = chunk_step(InputLines, chunks[k + 1], cursor_of(k)).rep
            /\ Len(chunks) = 1 =>
                  AppliedLines = SubSeq(InputLines, 1, insertion_index(k))
                                    \o chunks[k].new_lines
                                    \o SubSeq(InputLines, insertion_index(k) + 1, Len(InputLines))

\* C27 witness: a pure insertion behind its context line, short of the
\* document end, was followed by a chunk whose old_lines was found from the
\* same cursor.
C27_Witness ==
    /\ Applied /\ Len(chunks) = 2 /\ applyResult.status = "ok"
    /\ chunks[1].old_lines = <<>> /\ chunks[1].new_lines = <<LineX>>
    /\ ~chunks[1].is_end_of_file
    /\ cursor_of(1) > 0 /\ cursor_of(1) < Len(InputLines)
    /\ chunks[2].old_lines # <<>> /\ chunks[2].change_context = None
    /\ Pushed[2][1] = cursor_of(1) /\ Pushed[2][2] = Len(chunks[2].old_lines)

\* A pure insertion met a cursor beyond the document end and was clamped.
ClampedInsertion ==
    /\ Applied /\ Len(chunks) = 2
    /\ chunks[2].old_lines = <<>> /\ ~chunks[2].is_end_of_file
    /\ cursor_of(2) > Len(InputLines)
    /\ Pushed[2][1] = Len(InputLines)

-----------------------------------------------------------------------------
(* Chunks that resolve to the same start index.                            *)

\* Both chunks of a pair insert a line and their replacements start at the
\* same index.
SameStart ==
    /\ Applied /\ Len(chunks) = 2 /\ applyResult.status = "ok"
    /\ chunks[1].new_lines # <<>> /\ chunks[2].new_lines # <<>>
    /\ Pushed[1][1] = Pushed[2][1]

\* The lines first and then second occur in lines, in this order.
InOrder(lines, first, second) ==
    \E p \in 1..Len(lines) : \E q \in 1..Len(lines) :
        p < q /\ lines[p] = first /\ lines[q] = second

\* C28: when two chunks resolve to the same start index their new_lines
\* appear in the returned document in chunk order: the line of the first
\* chunk before the line of the second.
C28_SameStartKeepsChunkOrder ==
    SameStart => InOrder(AppliedLines, chunks[1].new_lines[1], chunks[2].new_lines[1])

\* The same for two pure insertions.
PureInsertionsKeepChunkOrder ==
    (SameStart /\ chunks[1].old_lines = <<>> /\ chunks[2].old_lines = <<>>) =>
        InOrder(AppliedLines, chunks[1].new_lines[1], chunks[2].new_lines[1])


\* The line of the second chunk is never returned before that of the first.
SameStartNeverReversed ==
    SameStart => ~InOrder(AppliedLines, chunks[2].new_lines[1], chunks[1].new_lines[1])

\* For the text "A" two chunks each replace the line A, by X and by Y: both
\* replacements start at 0, and the returned document is the line X alone.
SecondInsertionRemoved ==
    /\ SameStart
    /\ InputLines = <<LineA>>
    /\ chunks = <<Chunk(None, <<LineA>>, <<LineX>>, FALSE),
                  Chunk(None, <<LineA>>, <<LineY>>, FALSE)>>
    /\ Pushed = << <<0, 1, <<LineX>> >>, <<0, 1, <<LineY>> >> >>
    /\ AppliedLines = <<LineX>>

-----------------------------------------------------------------------------
(* parse_update_chunk on its own: the Update File loop of parse_patch      *)
(* hands it the lines from the current line on.                            *)

MaxChunkLines == 4

MarkerLine == <<"@", "@", " ", "a">>
ContextLine == <<" ", "a">>
AddedLine == <<"+", "b">>
RemovedLine == <<"-", "a">>
ContextMarkerLine == <<" ", "@", "@">>
UnprefixedLine == <<"a">>

ChunkLinePool ==
    {MarkerLine, ContextLine, AddedLine, RemovedLine, LineEmpty, ContextMarkerLine,
     END_OF_FILE, UnprefixedLine, UpdateLine}

InitChunk ==
    /\ patch \in {join(ls, <<"\n">>) : ls \in SeqsUpTo(ChunkLinePool, MaxChunkLines)}
    /\ parseResult = NoParseResult
    /\ ApplyIdle /\ SeekIdle /\ ToolsIdle /\ LoopIdle

\* let (chunk, lines_consumed) = parse_update_chunk(&lines[i..])
ParseUpdateChunk ==
    /\ ~parseResult.done
    /\ LET r == parse_update_chunk(str_lines(patch))
       IN  parseResult' = [done |-> TRUE, ok |-> TRUE, operations |-> <<>>,
                           chunk |-> r.chunk, consumed |-> r.consumed]
    /\ UNCHANGED <<loopVars, document, chunks, history, applyResult, seekArgs, seekResult,
                   patch, pageFiles, toolCall, toolResult, saved>>

NextChunk == ParseUpdateChunk

SpecChunk == InitChunk /\ [][NextChunk]_vars

\* The lines handed to parse_update_chunk.
ChunkLines == str_lines(patch)

\* The first line is a context marker or a diff line.
StartsChunk ==
    /\ parseResult.done /\ ChunkLines # <<>>
    /\ \/ starts_with(ChunkLines[1], AT_AT)
       \/ ChunkLines[1] # <<>> /\ Head(ChunkLines[1]) \in {" ", "+", "-"}

\* The body read by the first character of each line, from lines[k] on
\* (0-based k): space, `+`, `-` and the empty line are taken; the line
\* `*** End of File` is taken and ends the chunk; any other line ends it and
\* is left.
RECURSIVE by_first_character(_, _, _)
by_first_character(lines, k, acc) ==
    IF k >= Len(lines) THEN acc
    ELSE LET line == lines[k + 1] IN
         IF line = <<>>
         THEN by_first_character(lines, k + 1,
                 [acc EXCEPT !.old_lines = Append(@, <<>>), !.new_lines = Append(@, <<>>),
                             !.parsed_lines = @ + 1])
         ELSE IF Head(line) = " "
         THEN by_first_character(lines, k + 1,
                 [acc EXCEPT !.old_lines = Append(@, Tail(line)),
                             !.new_lines = Append(@, Tail(line)), !.parsed_lines = @ + 1])
         ELSE IF Head(line) = "+"
         THEN by_first_character(lines, k + 1,
                 [acc EXCEPT !.new_lines = Append(@, Tail(line)), !.parsed_lines = @ + 1])
         ELSE IF Head(line) = "-"
         THEN by_first_character(lines, k + 1,
                 [acc EXCEPT !.old_lines = Append(@, Tail(line)), !.parsed_lines = @ + 1])
         ELSE IF line = END_OF_FILE
         THEN [acc EXCEPT !.is_end_of_file = TRUE, !.parsed_lines = @ + 1]
         ELSE acc

BodyStart == IF starts_with(ChunkLines[1], AT_AT) THEN 1 ELSE 0

BodyByFirstCharacter ==
    by_first_character(ChunkLines, BodyStart,
                       [old_lines |-> <<>>, new_lines |-> <<>>, is_end_of_file |-> FALSE,
                        parsed_lines |-> BodyStart])

\* C29: parse_update_chunk classifies each body line by its first
\* character, in order: space -> the rest to old_lines and new_lines, `+` ->
\* new_lines, `-` -> old_lines, the empty line -> an empty string to both;
\* the line `*** End of File` sets is_end_of_file and ends the chunk, a
\* directive boundary or an unprefixed line ends it without being consumed,
\* and a chunk with neither old_lines nor new_lines is discarded.
C29_BodyLinesByFirstCharacter ==
    StartsChunk =>
        LET body == BodyByFirstCharacter IN
        /\ parseResult.consumed = body.parsed_lines
        /\ IF body.old_lines = <<>> /\ body.new_lines = <<>>
           THEN parseResult.chunk = None
           ELSE /\ parseResult.chunk # None
                /\ parseResult.chunk[1].old_lines = body.old_lines
                /\ parseResult.chunk[1].new_lines = body.new_lines
                /\ parseResult.chunk[1].is_end_of_file = body.is_end_of_file

\* No line of the input, trimmed, is a context marker behind a space.
NoIndentedBoundary ==
    \A k \in 1..Len(ChunkLines) :
        LET line == ChunkLines[k] IN
        line # <<>> /\ Head(line) \in {" ", "+", "-"} =>
            /\ ~starts_with(trim(line), AT_AT) /\ ~is_file_boundary(trim(line))
            /\ trim(line) # END_OF_FILE

\* The classification holds for inputs without such a line.
ClassifiedByFirstCharacter ==
    (StartsChunk /\ NoIndentedBoundary) =>
        LET body == BodyByFirstCharacter IN
        /\ parseResult.consumed = body.parsed_lines
        /\ IF body.old_lines = <<>> /\ body.new_lines = <<>>
           THEN parseResult.chunk = None
           ELSE /\ parseResult.chunk # None
                /\ parseResult.chunk[1].old_lines = body.old_lines
                /\ parseResult.chunk[1].new_lines = body.new_lines
                /\ parseResult.chunk[1].is_end_of_file = body.is_end_of_file

\* The lines "@@ a", " a", " @@", "+b": the chunk ends at the third line,
\* with old_lines [a] and new_lines [a], two lines consumed.
ContextLineEndsChunk ==
    /\ StartsChunk
    /\ ChunkLines = <<MarkerLine, ContextLine, ContextMarkerLine, AddedLine>>
    /\ parseResult.chunk = Some(Chunk(Some(<<"a">>), <<<<"a">>>>, <<<<"a">>>>, FALSE))
    /\ parseResult.consumed = 2

-----------------------------------------------------------------------------
(* find_line_fuzzy on its own: compute_replacements hands it the document  *)
(* lines and a context line or the first non-blank old line.               *)

FuzzyLinePool == {LineA, LineIndentedA, LineB, LineAB, LineAWideB, LineEmpty}

InitFuzzy ==
    /\ \E lines \in SeqsUpTo(FuzzyLinePool, MaxDocLines) : \E target \in FuzzyLinePool :
          seekArgs = [lines |-> lines, pattern |-> <<target>>, start |-> 0, eof |-> FALSE]
    /\ seekResult = NoSeekResult
    /\ ApplyIdle /\ ParseIdle /\ ToolsIdle /\ LoopIdle

FindLineFuzzy ==
    /\ ~seekResult.done
    /\ seekResult' = [done |-> TRUE,
                      found |-> find_line_fuzzy(seekArgs.lines, seekArgs.pattern[1])]
    /\ UNCHANGED <<loopVars, document, chunks, history, applyResult, seekArgs,
                   patch, parseResult, pageFiles, toolCall, toolResult, saved>>

NextFuzzy == FindLineFuzzy

SpecFuzzy == InitFuzzy /\ [][NextFuzzy]_vars

FuzzyTarget == seekArgs.pattern[1]
FuzzyIndices == 0..(Len(seekArgs.lines) - 1)

\* The lines for which each of the three tests holds.
TrimEqualLines == {i \in FuzzyIndices : trim(seekArgs.lines[i + 1]) = trim(FuzzyTarget)}
SubstringLines ==
    {i \in FuzzyIndices :
        \/ contains(seekArgs.lines[i + 1], trim(FuzzyTarget))
        \/ contains(trim(FuzzyTarget), trim(seekArgs.lines[i + 1]))}
SameWordsLines ==
    {i \in FuzzyIndices :
        take(split_whitespace(seekArgs.lines[i + 1]), 3)
            = take(split_whitespace(FuzzyTarget), 3)}

\* C30: find_line_fuzzy returns the first line trim-equal to the target when
\* there is one anywhere in the document, else the first line for which
\* either string holds the other, else the first line whose first three
\* whitespace-separated tokens are the target's; it returns no index only
\* when none of the three tests holds for any line.
C30_FuzzyPriority ==
    seekResult.done =>
        seekResult.found =
            IF TrimEqualLines # {} THEN Some(Least(TrimEqualLines))
            ELSE IF SubstringLines # {} THEN Some(Least(SubstringLines))
            ELSE IF SameWordsLines # {} THEN Some(Least(SameWordsLines))
            ELSE None

\* C30 witness: a line that only holds the target as a substring comes
\* before the line trim-equal to it, and the later line was returned.
C30_Witness ==
    /\ seekResult.done
    /\ FuzzyTarget = LineA
    /\ Len(seekArgs.lines) >= 2 /\ seekArgs.lines[1] = LineAB
    /\ 0 \in SubstringLines /\ 0 \notin TrimEqualLines
    /\ TrimEqualLines # {}
    /\ seekResult.found = Some(Least(TrimEqualLines))
    /\ seekResult.found[1] > 0

-----------------------------------------------------------------------------
(* parse_tool_call on its own: the loops hand it the text of one model     *)
(* response.                                                                *)

MaxPieces == 2

ResponsePieces ==
    {TextRun(1, 12), TextRun(2, 100), TextRun(1, 199), TextRun(2, 1),
     TaggedBlock(CallJson("create_file", CreateCall.arguments)),
     TaggedBlock(FlatCallJson("list_files")),
     TaggedBlock(Json(FALSE, TRUE, None, None)),
     TaggedBlock(Json(TRUE, FALSE, None, Some(NoArguments))),
     BareObject(FlatCallJson("finish")),
     BareObject(Json(TRUE, TRUE, None, None)),
     BareObject(CallJson("read_file", ReadCall.arguments)),
     FencedBlock(CallJson("respond", RespondCall(MessageHello).arguments)),
     FencedBlock(FlatCallJson("list_files")),
     FencedBlock(Json(FALSE, FALSE, None, None))}

NoParsedCall == [status |-> "none"]

InitToolCall ==
    /\ toolCall \in SeqsUpTo(ResponsePieces, MaxPieces)
    /\ toolResult = NoParsedCall
    /\ pageFiles = <<>> /\ saved = FALSE
    /\ ApplyIdle /\ SeekIdle /\ ParseIdle /\ LoopIdle

ParseToolCall ==
    /\ toolResult = NoParsedCall
    /\ toolResult' = parse_tool_call(toolCall)
    /\ UNCHANGED <<loopVars, document, chunks, history, applyResult, seekArgs, seekResult,
                   patch, parseResult, pageFiles, toolCall, saved>>

NextToolCall == ParseToolCall

SpecToolCall == InitToolCall /\ [][NextToolCall]_vars

\* The pieces of the response each of the three patterns matches.
TaggedPieces == {i \in 1..Len(toolCall) : toolCall[i].kind = "tagged"}
FlatToolPieces ==
    {i \in 1..Len(toolCall) :
        /\ toolCall[i].kind \in {"tagged", "fenced", "bare"}
        /\ toolCall[i].json.tool_key
        /\ toolCall[i].json.arguments = None}
FencedPieces == {i \in 1..Len(toolCall) : toolCall[i].kind = "fenced"}

\* What the object of piece i yields: a call named by its string tool, with
\* the empty object for missing arguments, or an error.
DecidedBy(i) ==
    LET json == toolCall[i].json IN
    IF json.valid /\ json.tool # None
    THEN [status |-> "ok",
          call |-> [name |-> json.tool[1],
                    arguments |-> IF json.arguments = None THEN NoArguments
                                  ELSE json.arguments[1]]]
    ELSE ParseErr

NoStrategyMatches == TaggedPieces = {} /\ FlatToolPieces = {} /\ FencedPieces = {}

\* C31: parse_tool_call tries a tagged block, then the first flat object
\* holding "tool", then a fenced block; the first strategy whose pattern
\* matches decides the result, and when none matches the error quoting the
\* start of the input is returned.
C31_StrategiesInOrder ==
    toolResult # NoParsedCall =>
        toolResult =
            IF TaggedPieces # {} THEN DecidedBy(Least(TaggedPieces))
            ELSE IF FlatToolPieces # {} THEN DecidedBy(Least(FlatToolPieces))
            ELSE IF FencedPieces # {} THEN DecidedBy(Least(FencedPieces))
            ELSE ParseErr

\* While some strategy matches, or the quoted prefix ends on a character
\* boundary, the result is the one the order of the strategies gives.
StrategiesInOrderOffPanic ==
    (toolResult # NoParsedCall /\ toolResult.status # "panic") =>
        toolResult =
            IF TaggedPieces # {} THEN DecidedBy(Least(TaggedPieces))
            ELSE IF FlatToolPieces # {} THEN DecidedBy(Least(FlatToolPieces))
            ELSE IF FencedPieces # {} THEN DecidedBy(Least(FencedPieces))
            ELSE ParseErr

\* 199 ASCII characters and one two-byte character: no strategy matches and
\* the slice of the first 200 bytes panics.
NoMatchPanics ==
    /\ toolCall = <<TextRun(1, 199), TextRun(2, 1)>>
    /\ NoStrategyMatches
    /\ toolResult = ParsePanic

\* A flat object later in the text is taken before an earlier fenced block.
FlatBeforeFenced ==
    /\ toolCall = <<FencedBlock(CallJson("respond", RespondCall(MessageHello).arguments)),
                    BareObject(FlatCallJson("finish"))>>
    /\ toolResult = ParsedCall("finish", NoArguments)

-----------------------------------------------------------------------------
(* expand_selection_with_ai: the page is loaded, the model is asked once,  *)
(* its response is parsed as a patch, the Update File operations are       *)
(* applied one after another to the content held in memory, and the result *)
(* is saved.  Every `?` of the function ends the run with an error.        *)

MaxResponseLines == 5

ResponseLinePool == {BeginLine, UpdateLine, <<"+", "X">>, <<"-", "A">>, <<"a">>}
\* Two chunks of one operation, the second located past the end of "A".
OverrunResponse ==
    join(<<BeginLine, UpdateLine, <<"-", "A">>, <<"-", "A">>, <<"@", "@">>, <<"-", "B">>,
           <<"+", "X">>>>, <<"\n">>)
ResponseTexts ==
    {join(ls, <<"\n">>) : ls \in SeqsUpTo(ResponseLinePool, MaxResponseLines)}
        \cup {OverrunResponse}
StoredPages == {join(<<LineA, LineB>>, <<"\n">>), LineA, LineB, <<>>, NoFile}

\* The locals of one call: content, result_content and the operations the
\* for loop still has to visit; outcome is the value returned, cause the
\* `?` that returned an error.
ExpansionRun(pc, content, result_content, operations, outcome, cause) ==
    [agent |-> "expansion", pc |-> pc, content |-> content,
     result_content |-> result_content, operations |-> operations,
     outcome |-> outcome, cause |-> cause]

expansion_failed(run, cause) == [run EXCEPT !.pc = "done", !.outcome = "err", !.cause = cause]

\* a failed parse is taken for a patch without operations
expansion_parsed_lenient(run, parsed) ==
    [run EXCEPT !.pc = "apply", !.operations = parsed.operations]

\* let operations = parse_patch(&response)?;
expansion_parsed(run, parsed) ==
    IF ~parsed.ok THEN expansion_failed(run, "parse")
    ELSE [run EXCEPT !.pc = "apply", !.operations = parsed.operations]

\* the body of `for op in operations` for an applied Update File operation
expansion_applied(run, r) ==
    IF r.status = "ok"
    THEN [run EXCEPT !.result_content = r.text, !.operations = Tail(run.operations)]
    ELSE IF r.status = "panic"
    THEN [run EXCEPT !.pc = "done", !.outcome = "panic", !.cause = "apply"]
    ELSE expansion_failed(run, "apply")

InitExpand ==
    /\ pageFiles \in [{PageName} -> StoredPages]
    /\ loop = ExpansionRun("load", <<>>, <<>>, <<>>, "none", "none")
    /\ patch = <<>> /\ history = <<>>
    /\ document = <<>> /\ chunks = <<>> /\ applyResult = NoApplyResult
    /\ parseResult = NoParseResult
    /\ toolCall = NoToolCall /\ toolResult = NoToolResult /\ saved = FALSE
    /\ SeekIdle /\ store = NoStore /\ editStep = NoEditStep

\* LlmClient::from_config()? and load_page_content(project_id, page_name)?
ExpandLoad ==
    /\ loop.agent = "expansion" /\ loop.pc = "load"
    /\ \E config_ok \in BOOLEAN : \E fault \in {"none", "read"} :
          loop' = IF ~config_ok THEN expansion_failed(loop, "config")
                  ELSE IF ~load_page_content(pageFiles, PageName, fault).ok
                  THEN expansion_failed(loop, "load")
                  ELSE [loop EXCEPT !.pc = "call",
                                    !.content = pageFiles[PageName],
                                    !.result_content = pageFiles[PageName]]
    /\ UNCHANGED <<store, editStep, document, chunks, history, applyResult, seekArgs,
                   seekResult, patch, parseResult, pageFiles, toolCall, toolResult, saved>>

\* client.chat_completion(messages, Some(0.7)).await?
ExpandCall ==
    /\ loop.agent = "expansion" /\ loop.pc = "call"
    /\ \/ /\ loop' = expansion_failed(loop, "call")
          /\ patch' = patch
       \/ \E response \in ResponseTexts :
             /\ loop' = [loop EXCEPT !.pc = "parse"]
             /\ patch' = response
    /\ UNCHANGED <<store, editStep, document, chunks, history, applyResult, seekArgs,
                   seekResult, parseResult, pageFiles, toolCall, toolResult, saved>>

ExpandParse ==
    /\ loop.agent = "expansion" /\ loop.pc = "parse"
    /\ loop' = expansion_parsed(loop, parse_patch(patch))
    /\ UNCHANGED <<store, editStep, document, chunks, history, applyResult, seekArgs,
                   seekResult, patch, parseResult, pageFiles, toolCall, toolResult, saved>>

\* One pass of `for op in operations`: Add File and Delete File operations
\* and Update File operations without chunks are passed over.
ExpandApply ==
    /\ loop.agent = "expansion" /\ loop.pc = "apply" /\ loop.operations # <<>>
    /\ loop' = IF /\ Head(loop.operations).type = "UpdateFile"
                  /\ Head(loop.operations).chunks # <<>>
               THEN expansion_applied(loop,
                        apply_update_chunks(loop.result_content,
                                            Head(loop.operations).chunks))
               ELSE [loop EXCEPT !.operations = Tail(loop.operations)]
    /\ UNCHANGED <<store, editStep, document, chunks, history, applyResult, seekArgs,
                   seekResult, patch, parseResult, pageFiles, toolCall, toolResult, saved>>

\* save_page_content(project_id, page_name, &updated_markdown)?; history
\* records the contents written to the page file.
ExpandSave ==
    /\ loop.agent = "expansion" /\ loop.pc = "apply" /\ loop.operations = <<>>
    /\ \E fault \in {"none", "write"} :
          /\ pageFiles' = save_page_content(pageFiles, PageName, loop.result_content,
                                            fault).files
          /\ history' = IF fault = "write" THEN history
                        ELSE Append(history, loop.result_content)
          /\ loop' = IF fault = "write" THEN expansion_failed(loop, "save")
                     ELSE [loop EXCEPT !.pc = "done", !.outcome = "ok"]
    /\ UNCHANGED <<store, editStep, document, chunks, applyResult, seekArgs,
                   seekResult, patch, parseResult, toolCall, toolResult, saved>>

NextExpand == ExpandLoad \/ ExpandCall \/ ExpandParse \/ ExpandApply \/ ExpandSave

SpecExpand == InitExpand /\ [][NextExpand]_vars

ResponseHasBeginMarker ==
    \E k \in 1..Len(str_lines(patch)) : starts_with(trim(str_lines(patch)[k]), BEGIN_PATCH)

\* The run ended on the model call or on a response without begin marker.
ExpansionRejected ==
    /\ loop.pc = "done"
    /\ \/ loop.cause = "call"
       \/ loop.cause \notin {"config", "load", "call"} /\ ~ResponseHasBeginMarker

\* C32: when the model call fails or the response has no begin marker the
\* call returns an error and the stored page is the content that was loaded;
\* the page is written at most once, and only when every operation of the
\* patch has been applied to the content in memory.
C32_ExpansionWritesOnceAtEnd ==
    /\ [](/\ ExpansionRejected =>
                /\ loop.outcome = "err"
                /\ history = <<>>
                /\ pageFiles[PageName] = loop.content
          /\ Len(history) <= 1)
    /\ [][history' # history =>
            /\ loop.pc = "apply" /\ loop.operations = <<>>
            /\ history = <<>>
            /\ history' = <<loop.result_content>>
            /\ pageFiles'[PageName] = loop.result_content
            /\ loop'.outcome = "ok"]_vars

\* A response without begin marker has been rejected.
C32_Witness ==
    /\ ExpansionRejected
    /\ loop.cause = "parse"
    /\ patch = join(<<UpdateLine, <<"-", "A">>, <<"+", "X">>>>, <<"\n">>)
    /\ pageFiles[PageName] = LineA

\* Two Update File operations were applied in memory and written at once.
TwoOperationsOneWrite ==
    /\ loop.outcome = "ok"
    /\ patch = join(<<BeginLine, UpdateLine, <<"+", "X">>, UpdateLine, <<"+", "X">>>>,
                    <<"\n">>)
    /\ Len(history) = 1
    /\ pageFiles[PageName] # loop.content

\* The model call failed.
ModelCallFailed == ExpansionRejected /\ loop.cause = "call" /\ pageFiles[PageName] = LineA

\* apply_update_chunks panicked on an operation: nothing was written.
ApplyPanicked ==
    /\ loop.outcome = "panic" /\ patch = OverrunResponse
    /\ history = <<>> /\ pageFiles[PageName] = loop.content

-----------------------------------------------------------------------------
(* edit_file executed by the executor of either agent on a stored project  *)
(* whose page holds old_content no, one or several times.                  *)

MaxEdits == 1
MaxPageLen == 3

EditedContents == SeqsUpTo({"a", "b"}, MaxPageLen)

EditProjects ==
    {Project(<<PageName>>, <<"t">>, <<"d">>, [f \in {PageName} |-> c]) :
        c \in EditedContents}
    \cup
    {Project(<<PageName, OtherName>>, <<"t">>, <<"d">>,
             [f \in {PageName, OtherName} |-> IF f = PageName THEN c ELSE <<"a", "b", "a">>]) :
        c \in EditedContents}

\* The arguments of an edit_file call: all three, or the filename alone.
EditCalls ==
    {ToolCallOf("edit_file", a) : a \in EditArguments}
        \cup {ToolCallOf("edit_file", [filename |-> PageName])}

\* The agent whose executor runs, its state, and the number of tools executed.
EditRun(agent, state, executed) ==
    [agent |-> "edits", executor |-> agent, state |-> state, executed |-> executed]

InitEdit ==
    /\ store \in EditProjects
    /\ \/ loop = EditRun("generation", AgentState(GenerationMaxIterations), 0)
       \/ loop = EditRun("editing",
                         EditingAgentState(store.page_order, EditingMaxIterations), 0)
    /\ editStep = NoEditStep
    /\ ApplyIdle /\ SeekIdle /\ ParseIdle /\ ToolsIdle

EditExecuted(tool_call, outcome) ==
    /\ toolCall' = [agent |-> loop.executor, name |-> tool_call.name,
                    arguments |-> tool_call.arguments]
    /\ toolResult' = outcome.result
    /\ store' = outcome.store
    /\ loop' = EditRun(loop.executor, outcome.state, loop.executed + 1)
    /\ UNCHANGED <<document, chunks, history, applyResult, seekArgs, seekResult,
                   patch, parseResult, pageFiles, saved, editStep>>

\* execute_tool on an edit_file call
GenerationEditFile ==
    /\ loop.agent = "edits" /\ loop.executor = "generation" /\ loop.executed < MaxEdits
    /\ \E tool_call \in EditCalls : \E fault \in StoreFaults :
          EditExecuted(tool_call, execute_tool(tool_call, loop.state, store, fault))

\* execute_editing_tool on an edit_file call
EditingEditFile ==
    /\ loop.agent = "edits" /\ loop.executor = "editing" /\ loop.executed < MaxEdits
    /\ \E tool_call \in EditCalls : \E fault \in StoreFaults :
          EditExecuted(tool_call, execute_editing_tool(tool_call, loop.state, store, fault))

NextEdit == GenerationEditFile \/ EditingEditFile

SpecEdit == InitEdit /\ [][NextEdit]_vars

\* The step is an edit_file that returned success.
EditSucceeds ==
    /\ toolCall'.name = "edit_file" /\ toolResult'.success
    /\ loop'.executed = loop.executed + 1

EditedFile == arg_str(toolCall'.arguments, "filename", "")
OldContent == arg_str(toolCall'.arguments, "old_content", <<>>)
NewContent == arg_str(toolCall'.arguments, "new_content", <<>>)

\* old occurs in page at offset k.
OccursAt(page, old, k) ==
    k + Len(old) <= Len(page) /\ SubSeq(page, k + 1, k + Len(old)) = old

\* after is before with the occurrence of old at its least offset replaced
\* by new, everything left and right of that occurrence being kept.
FirstOccurrenceReplaced(before, after, old, new) ==
    \E k \in 0..Len(before) :
        /\ OccursAt(before, old, k)
        /\ \A j \in 0..(k - 1) : ~OccursAt(before, old, j)
        /\ after = SubSeq(before, 1, k) \o new
                       \o SubSeq(before, k + Len(old) + 1, Len(before))

\* C33: a successful edit_file replaces the first occurrence of old_content
\* in the page by new_content and keeps the text before and after it, every
\* other page file, page_order and the in-memory page list.
C33_EditReplacesFirstOccurrenceOnly ==
    [][EditSucceeds =>
          /\ EditedFile \in DOMAIN store.files
          /\ FirstOccurrenceReplaced(store.files[EditedFile], store'.files[EditedFile],
                                     OldContent, NewContent)
          /\ DOMAIN store'.files = DOMAIN store.files
          /\ \A f \in DOMAIN store.files \ {EditedFile} : store'.files[f] = store.files[f]
          /\ store'.page_order = store.page_order
          /\ loop'.state.pages = loop.state.pages]_vars

\* C33 witness: "aba" has become "cba" by an edit of a to c in a project of
\* two pages.
C33_Witness ==
    /\ loop.agent = "edits" /\ loop.executed = 1
    /\ toolCall.name = "edit_file" /\ toolResult.success
    /\ toolCall.arguments = [filename |-> PageName, old_content |-> <<"a">>,
                             new_content |-> <<"c">>]
    /\ store.files[PageName] = <<"c", "b", "a">>
    /\ store.page_order = <<PageName, OtherName>>

\* An edit_file without old_content and new_content succeeds and keeps the page.
EditWithoutContents ==
    /\ loop.agent = "edits" /\ loop.executed = 1 /\ toolResult.success
    /\ toolCall.arguments = [filename |-> PageName]
    /\ store.files[PageName] = <<"a", "b">>

-----------------------------------------------------------------------------
(* The in-memory page list of a loop and the persisted page_order.         *)

\* C34: after every tool execution of a loop, successful or failed, the
\* filenames of state.pages are the persisted page_order, in the same order.
C34_PageListMirrorsPageOrder ==
    [][ExecutesTool => loop'.state.pages = store'.page_order]_vars

\* C34 witness: an editing run on a one-page project has created a second
\* page and then deleted the first; the page list and page_order both hold
\* the second page only.
C34_Witness ==
    /\ loop.agent = "editing" /\ loop.tools_executed = 2
    /\ loop.last.executed /\ loop.last.success
    /\ LastCall(loop) = DeleteCall(PageName)
    /\ loop.log[1][1] = CreateCall
    /\ loop.state.pages = <<"02-a.md">>
    /\ store.page_order = <<"02-a.md">>

\* A create_file of a generation run failed on the store and listed nothing.
FailedCreateListsNothing ==
    /\ loop.agent = "generation" /\ loop.last.executed /\ ~loop.last.success
    /\ LastCall(loop) = CreateCall /\ LastFault(loop) = "write"
    /\ loop.state.pages = <<>> /\ store.page_order = <<>>

\* The same over sequences of create_file and delete_file of the editing
\* executor, with filenames that occur twice.
PageListMirrorsPageOrderInSequences ==
    loop.agent = "pages" => loop.state.pages = store.page_order

RepeatedNameMirrored ==
    /\ loop.agent = "pages"
    /\ ~NoDuplicate(store.page_order)
    /\ loop.state.pages = store.page_order

-----------------------------------------------------------------------------
(* The transcript of the generation loop.                                   *)

\* The messages of the transcript after the system and the first user turn.
AssistantTurns(l) == l.messages.assistant
UserTurns(l) == l.messages.user_error + l.messages.tool_ok + l.messages.tool_failed

\* The step is an iteration of the generation loop whose model call returned
\* a response.
GenerationResponds ==
    /\ loop.agent = "generation" /\ loop.pc = "loop"
    /\ loop'.model_calls = loop.model_calls + 1
    /\ loop'.last.reply # None /\ loop'.last.reply[1].ok

OneAssistantOneUser ==
    {<<"assistant", "user_error">>, <<"assistant", "tool_ok">>, <<"assistant", "tool_failed">>}

\* C35: at the start of every iteration of the generation loop the
\* transcript holds the system turn, the user turn and one assistant and one
\* user turn per completed iteration; every iteration appends the response
\* as one assistant turn and then one user turn, the corrective message or
\* the report of the tool.
C35_TranscriptAlternates ==
    /\ []((loop.agent = "generation" /\ loop.pc = "loop") =>
            /\ AssistantTurns(loop) = loop.state.iteration
            /\ UserTurns(loop) = loop.state.iteration)
    /\ [][GenerationResponds =>
            /\ loop'.appended \in OneAssistantOneUser
            /\ AssistantTurns(loop') = AssistantTurns(loop) + 1
            /\ UserTurns(loop') = UserTurns(loop) + 1]_vars

\* The same for the iterations that do not panic.
TranscriptAlternatesOffPanic ==
    /\ []((loop.agent = "generation" /\ loop.pc = "loop") =>
            /\ AssistantTurns(loop) = loop.state.iteration
            /\ UserTurns(loop) = loop.state.iteration)
    /\ [][(GenerationResponds /\ loop'.pc # "panicked") =>
            /\ loop'.appended \in OneAssistantOneUser
            /\ AssistantTurns(loop') = AssistantTurns(loop) + 1
            /\ UserTurns(loop') = UserTurns(loop) + 1]_vars

\* A response of 199 ASCII characters and one two-byte character has been
\* pushed as the assistant turn, and the iteration has panicked before any
\* user turn.
AssistantTurnWithoutUserTurn ==
    /\ loop.agent = "generation" /\ loop.pc = "panicked"
    /\ loop.last.reply = Some(Reply(SplitCharText))
    /\ loop.appended = <<"assistant">>
    /\ AssistantTurns(loop) = UserTurns(loop) + 1

-----------------------------------------------------------------------------
(* The response an editing run returns.                                     *)

\* C36: whenever run_editing_agent returns its result, the response, which
\* is the assistant message appended to the session, is a non-empty string.
C36_ReturnedResponseNonEmpty ==
    (loop.agent = "editing" /\ loop.pc = "returned") => ~is_empty(loop.final_response)

\* C36 witness: the loop ended on respond with an empty message, the extra
\* model call answered respond with an empty message again, and the fixed
\* acknowledgement is returned.
C36_Witness ==
    /\ loop.agent = "editing" /\ loop.pc = "returned"
    /\ loop.log # <<>> /\ LastCall(loop) = RespondCall(<<>>)
    /\ loop.summary_reply = Some(Reply(Tagged(RespondCall(<<>>))))
    /\ loop.final_response = DefaultAcknowledgement

\* Ten iterations without respond, then a failed extra model call.
ReturnedAfterFailedSummary ==
    /\ loop.agent = "editing" /\ loop.pc = "returned"
    /\ loop.state.iteration = EditingMaxIterations
    /\ loop.summary_reply = Some(FailedReply)
    /\ ~is_empty(loop.final_response)

\* respond without a message in the loop gives the default of execute_respond.
ReturnedDefaultRespondMessage ==
    /\ loop.agent = "editing" /\ loop.pc = "returned" /\ loop.summary_calls = 0
    /\ loop.final_response = DefaultRespondMessage

\* An empty response text in the loop is followed by the extra model call.
ReturnedAfterEmptyText ==
    /\ loop.agent = "editing" /\ loop.pc = "returned" /\ loop.summary_calls = 1
    /\ loop.last.reply = Some(Reply(EmptyText))
    /\ loop.summary_reply = Some(Reply(EmptyText))
    /\ loop.final_response = DefaultAcknowledgement

-----------------------------------------------------------------------------
(* The extra model call of the editing loop.                                *)

\* The step is the extra model call and what is made of its reply.
SummaryCallMade ==
    /\ loop.agent = "editing" /\ loop.pc = "summary"
    /\ loop'.summary_calls = loop.summary_calls + 1

SummaryParsed(l) == parse_tool_call(l.summary_reply[1].response)

\* The non-empty message of a respond call in the reply, if there is one.
RespondMessageOf(l) ==
    IF /\ l.summary_reply[1].ok
       /\ SummaryParsed(l).status = "ok"
       /\ SummaryParsed(l).call.name = "respond"
       /\ "message" \in DOMAIN SummaryParsed(l).call.arguments
       /\ ~is_empty(SummaryParsed(l).call.arguments.message)
    THEN Some(SummaryParsed(l).call.arguments.message)
    ELSE None

\* C37: the extra model call executes no tool: the page files, page_order
\* and the project's title and description are what they were before it,
\* as is the agent state, and the response is the respond message of the
\* reply or else the fixed acknowledgement.
C37_SummaryExecutesNothing ==
    [][SummaryCallMade =>
          /\ store' = store
          /\ loop'.tools_executed = loop.tools_executed
          /\ loop'.log = loop.log
          /\ loop'.state = loop.state
          /\ loop'.pc = "returned" =>
                loop'.final_response =
                    IF RespondMessageOf(loop') # None THEN RespondMessageOf(loop')[1]
                    ELSE DefaultAcknowledgement]_vars

\* C37 witness: the extra reply was a create_file call; the run has returned
\* the fixed acknowledgement and the project holds the page it began with.
C37_Witness ==
    /\ loop.agent = "editing" /\ loop.pc = "returned"
    /\ loop.summary_reply = Some(Reply(Tagged(CreateCall)))
    /\ loop.tools_executed = 0
    /\ store = loop.start
    /\ store.page_order = <<PageName>>
    /\ loop.final_response = DefaultAcknowledgement

\* The extra reply was a delete_file call for the page: the page is kept.
SummaryDeleteIgnored ==
    /\ loop.agent = "editing" /\ loop.pc = "returned"
    /\ loop.summary_reply = Some(Reply(Tagged(DeleteCall(PageName))))
    /\ PageName \in DOMAIN store.files /\ store.page_order = <<PageName>>

\* The respond message of the extra reply is the response.
SummaryMessageRead ==
    /\ loop.agent = "editing" /\ loop.pc = "returned"
    /\ loop.summary_reply = Some(Reply(Tagged(RespondCall(MessageHello))))
    /\ loop.final_response = MessageHello

-----------------------------------------------------------------------------
(* The pages_changed flag of an editing run.                                *)

\* C38: when run_editing_agent returns pages_changed = false, the page
\* files and page_order are those the run began with.
C38_UnchangedFlagMeansUnchangedPages ==
    (loop.agent = "editing" /\ loop.pc = "returned" /\ ~loop.pages_changed) =>
        /\ store.files = loop.start.files
        /\ store.page_order = loop.start.page_order

\* C38 witness: the run has renamed the book and listed the files, and has
\* returned with pages_changed = false.
C38_Witness ==
    /\ loop.agent = "editing" /\ loop.pc = "returned" /\ ~loop.pages_changed
    /\ loop.tools_executed >= 2
    /\ loop.log[1][1] = BookInfoCall
    /\ store.title # loop.start.title
    /\ store.files = loop.start.files

\* Every run that changed a page file or page_order has set the flag, also
\* when it did not return.
PageChangeSetsFlag ==
    (loop.agent = "editing"
        /\ (store.files # loop.start.files \/ store.page_order # loop.start.page_order))
      => loop.pages_changed

\* The flag is set by the call, whether or not the tool changes anything.
FlagSetByFailedEdit ==
    /\ loop.agent = "editing" /\ loop.pc = "returned" /\ loop.pages_changed
    /\ loop.tools_executed = 2 /\ loop.log[1][1] = EditCall /\ LastFault(loop) = "none"
    /\ loop.log[1][2] = "read"
    /\ store = loop.start

-----------------------------------------------------------------------------
(* The progress notifications of the two loops.                             *)

WithoutDelivery(l) == [l EXCEPT !.undelivered = FALSE]

\* The reply and the store fault the step has met.
StepReply == IF loop.pc = "summary" THEN loop'.summary_reply[1] ELSE loop'.last.reply[1]
StepFault == IF loop'.tools_executed > loop.tools_executed THEN LastFault(loop') ELSE "none"

\* The step the loop takes from l and st when every emit succeeds.
DeliveredStep(l, st, reply, fault) ==
    IF l.pc = "summary" THEN summary_step(l, st, reply)
    ELSE IF l.agent = "generation" THEN generation_iteration(l, st, reply, fault)
    ELSE editing_iteration(l, st, reply, fault)

\* The notification before a tool execution names the tool executed.
ToolNamedBeforeExecution ==
    ExecutesTool => loop'.last.notice = Some(LastCall(loop').name)

\* Apart from the record of delivery, the step is the one taken when every
\* emit of the run succeeds.
StepIgnoresDelivery ==
    loop.agent \in {"generation", "editing"} =>
        /\ WithoutDelivery(loop')
              = WithoutDelivery(DeliveredStep(WithoutDelivery(loop), store, StepReply,
                                              StepFault).loop)
        /\ store' = DeliveredStep(WithoutDelivery(loop), store, StepReply, StepFault).store

\* C39: before every tool execution a notification naming the tool is
\* emitted; a notification is emitted when the loop has completed and when
\* it has failed; and neither emitting nor an emit error changes the control
\* flow, the transcript or the stored state of the loop.
C39_NotificationsObserveOnly ==
    /\ [][ToolNamedBeforeExecution]_vars
    /\ [](loop.pc \in {"returned", "failed"} => loop.end_notice # "none")
    /\ [](loop.agent \in {"generation", "editing"} => loop.last.thinking # "panic")
    /\ [][StepIgnoresDelivery]_vars

\* What holds of the claim: the tool is named before it is executed, a run
\* that returns has emitted its last notification, and emit errors change
\* nothing.
NotificationsOfReturningRuns ==
    /\ [][ToolNamedBeforeExecution]_vars
    /\ [](loop.pc = "returned" => loop.end_notice # "none")
    /\ [][StepIgnoresDelivery]_vars

\* The first model call of a generation run failed: the run has returned the
\* error and no notification has followed.
FailedWithoutNotification ==
    /\ loop.agent = "generation" /\ loop.pc = "failed" /\ loop.model_calls = 1
    /\ loop.end_notice = "none" /\ ~loop.undelivered

\* The same in an editing run.
EditingFailedWithoutNotification ==
    /\ loop.agent = "editing" /\ loop.pc = "failed" /\ loop.end_notice = "none"

\* A response whose first line has a two-byte character across byte 80:
\* the line is cut for the notification and the slice panics, before the
\* response is pushed onto the transcript.
ThinkingLinePanics ==
    /\ loop.agent = "generation" /\ loop.pc = "panicked"
    /\ loop.last.reply = Some(Reply(SplitLineText))
    /\ loop.last.thinking = "panic"
    /\ loop.appended = <<>> /\ loop.last.parse = "none"

\* A run with an emit error has returned.
UndeliveredRunReturns ==
    /\ loop.agent = "generation" /\ loop.pc = "returned" /\ loop.undelivered
    /\ loop.end_notice = "complete" /\ loop.tools_executed = 2

-----------------------------------------------------------------------------
(* parse_patch pass by pass: the search for the begin marker, the          *)
(* directive loop, the content loop of Add File and the chunk loop of      *)
(* Update File, each action one pass of one `while`.  i is the line index,  *)
(* path, content and chunks the locals of the directive being read.        *)

PatchRun(pc, i, path, content, cs, operations) ==
    [agent |-> "patch", pc |-> pc, i |-> i, path |-> path, content |-> content,
     chunks |-> cs, operations |-> operations]

\* i += lines_consumed.max(1)
chunk_advance(lines_consumed) == IF lines_consumed >= 1 THEN lines_consumed ELSE 1

\* while i < lines.len() && !lines[i].trim().starts_with("*** Begin Patch")
\* and the two statements after it
begin_pass(lines, run) ==
    IF run.i < Len(lines) /\ ~starts_with(trim(lines[run.i + 1]), BEGIN_PATCH)
    THEN [run EXCEPT !.i = @ + 1]
    ELSE IF run.i >= Len(lines) THEN [run EXCEPT !.pc = "failed"]
    ELSE [run EXCEPT !.pc = "directive", !.i = @ + 1]

\* A pass of the directive loop that stays on a line that is no directive
directive_pass_stalled(lines, run) ==
    LET line == trim(lines[run.i + 1]) IN
    IF starts_with(line, END_PATCH) THEN [run EXCEPT !.pc = "done"]
    ELSE IF starts_with(line, ADD_FILE)
    THEN [run EXCEPT !.pc = "add", !.i = @ + 1, !.content = <<>>,
                     !.path = trim(strip_prefix(line, ADD_FILE))]
    ELSE IF starts_with(line, UPDATE_FILE)
    THEN [run EXCEPT !.pc = "update", !.i = @ + 1, !.chunks = <<>>,
                     !.path = trim(strip_prefix(line, UPDATE_FILE))]
    ELSE IF starts_with(line, DELETE_FILE)
    THEN [run EXCEPT !.i = @ + 1,
                     !.operations = Append(@, DeleteFile(trim(strip_prefix(line, DELETE_FILE))))]
    ELSE run

\* One pass of `while i < lines.len()` of the directive loop, for i < len
directive_pass(lines, run) ==
    LET line == trim(lines[run.i + 1]) IN
    IF starts_with(line, END_PATCH) THEN [run EXCEPT !.pc = "done"]
    ELSE IF starts_with(line, ADD_FILE)
    THEN [run EXCEPT !.pc = "add", !.i = @ + 1, !.content = <<>>,
                     !.path = trim(strip_prefix(line, ADD_FILE))]
    ELSE IF starts_with(line, UPDATE_FILE)
    THEN [run EXCEPT !.pc = "update", !.i = @ + 1, !.chunks = <<>>,
                     !.path = trim(strip_prefix(line, UPDATE_FILE))]
    ELSE IF starts_with(line, DELETE_FILE)
    THEN [run EXCEPT !.i = @ + 1,
                     !.operations = Append(@, DeleteFile(trim(strip_prefix(line, DELETE_FILE))))]
    ELSE [run EXCEPT !.i = @ + 1]

\* The test of the directive loop, and its pass
directive_loop_pass(lines, run) ==
    IF run.i >= Len(lines) THEN [run EXCEPT !.pc = "done"]
    ELSE directive_pass(lines, run)

\* One pass of the content loop of Add File, or its end
add_file_pass(lines, run) ==
    IF run.i >= Len(lines) \/ starts_with(lines[run.i + 1], STARS)
    THEN [run EXCEPT !.pc = "directive",
                     !.operations = Append(@, AddFile(run.path, run.content))]
    ELSE IF starts_with(lines[run.i + 1], <<"+">>)
    THEN [run EXCEPT !.i = @ + 1,
                     !.content = @ \o strip_prefix(lines[run.i + 1], <<"+">>) \o <<"\n">>]
    ELSE [run EXCEPT !.i = @ + 1]

\* One pass of the chunk loop of Update File on a line that is neither a
\* boundary nor blank
chunk_pass(run, parsed) ==
    [run EXCEPT !.i = @ + chunk_advance(parsed.consumed),
                !.chunks = IF parsed.chunk # None THEN Append(@, parsed.chunk[1]) ELSE @]

\* One pass of the chunk loop of Update File, or its end
update_file_pass(lines, run) ==
    IF run.i >= Len(lines) \/ is_file_boundary(trim(lines[run.i + 1]))
    THEN [run EXCEPT !.pc = "directive",
                     !.operations = Append(@, UpdateFile(run.path, run.chunks))]
    ELSE IF trim(lines[run.i + 1]) = <<>> THEN [run EXCEPT !.i = @ + 1]
    ELSE chunk_pass(run, parse_update_chunk(SubSeq(lines, run.i + 1, Len(lines))))

InitPasses ==
    /\ patch = <<>>
    /\ parseResult = NoParseResult
    /\ loop = PatchRun("call", 0, <<>>, <<>>, <<>>, <<>>)
    /\ store = NoStore /\ editStep = NoEditStep
    /\ ApplyIdle /\ SeekIdle /\ ToolsIdle

\* parse_patch is called on a text.
ParsePatchCalled ==
    /\ loop.agent = "patch" /\ loop.pc = "call"
    /\ patch' \in PatchTexts \cup {ScenarioPatch}
    /\ loop' = [loop EXCEPT !.pc = "begin"]
    /\ UNCHANGED <<store, editStep, document, chunks, history, applyResult, seekArgs,
                   seekResult, parseResult, pageFiles, toolCall, toolResult, saved>>

\* The locals after the pass, and the value returned when the pass returns.
PassTaken(run) ==
    /\ loop' = run
    /\ parseResult' =
         IF run.pc = "done"
         THEN [done |-> TRUE, ok |-> TRUE, operations |-> run.operations]
         ELSE IF run.pc = "failed"
         THEN [done |-> TRUE, ok |-> FALSE, operations |-> <<>>]
         ELSE parseResult
    /\ UNCHANGED <<store, editStep, document, chunks, history, applyResult, seekArgs,
                   seekResult, patch, pageFiles, toolCall, toolResult, saved>>

BeginPass ==
    /\ loop.agent = "patch" /\ loop.pc = "begin"
    /\ PassTaken(begin_pass(PatchLines, loop))

DirectivePass ==
    /\ loop.agent = "patch" /\ loop.pc = "directive"
    /\ PassTaken(directive_loop_pass(PatchLines, loop))

AddFilePass ==
    /\ loop.agent = "patch" /\ loop.pc = "add"
    /\ PassTaken(add_file_pass(PatchLines, loop))

UpdateFilePass ==
    /\ loop.agent = "patch" /\ loop.pc = "update"
    /\ PassTaken(update_file_pass(PatchLines, loop))

NextPasses ==
    ParsePatchCalled \/ BeginPass \/ DirectivePass \/ AddFilePass \/ UpdateFilePass

SpecPasses == InitPasses /\ [][NextPasses]_vars

PatchParsed == loop.pc \in {"done", "failed"}

\* The run after the one pass that the parser takes from `run`.
next_pass(lines, run) ==
    CASE run.pc = "begin" -> begin_pass(lines, run)
      [] run.pc = "directive" -> directive_loop_pass(lines, run)
      [] run.pc = "add" -> add_file_pass(lines, run)
      [] run.pc = "update" -> update_file_pass(lines, run)
      [] OTHER -> run

\* What is left to do: the lines from the index on, three passes at most
\* for each, and the loop that the parser is in.
PassesLeft(lines, run) ==
    3 * (Len(lines) - run.i)
      + (CASE run.pc \in {"add", "update"} -> 2
           [] run.pc \in {"begin", "directive"} -> 1
           [] OTHER -> 0)

\* The parser is on a pass of the directive loop or of the chunk loop, with
\* a line at the index.
LoopPassOnLine ==
    /\ loop.pc \in {"directive", "update"}
    /\ loop.i < Len(PatchLines)

\* The pass from `before` to `after` has left its loop by `break`.
LeftByBreak(before, after) ==
    \/ before.pc = "directive" /\ after.pc = "done"
    \/ before.pc = "update" /\ after.pc = "directive" /\ after.i = before.i

\* C40: parse_patch terminates: in every state that the parser reaches
\* before it returns, the pass it takes lowers what is left to do, which is
\* never below zero as the index stays within the lines; and a pass of the
\* directive loop or of the chunk loop of Update File on a line either
\* leaves its loop or advances the line index by at least one.
C40_ParsePatchTerminates ==
    (loop.agent = "patch" /\ loop.pc \in {"begin", "directive", "add", "update"}) =>
        LET after == next_pass(PatchLines, loop) IN
        /\ loop.i <= Len(PatchLines) /\ after.i <= Len(PatchLines)
        /\ PassesLeft(PatchLines, after) < PassesLeft(PatchLines, loop)
        /\ LoopPassOnLine => (LeftByBreak(loop, after) \/ after.i >= loop.i + 1)

\* C40 witness: in an Update File directive the line "a" was rejected as no
\* chunk start and passed over, the chunk of "+a" was read after it, and
\* the parse has ended at the end of the four lines.
C40_Witness ==
    /\ loop.agent = "patch" /\ loop.pc = "done"
    /\ PatchLines = <<BeginLine, UpdateLine, <<"a">>, <<"+", "a">>>>
    /\ loop.i = 4
    /\ loop.operations = <<UpdateFile(<<"p">>, <<Chunk(None, <<>>, <<<<"a">>>>, FALSE)>>)>>

\* Every step of the parser after the call is the pass of next_pass, and
\* lowers what is left to do.
EveryPassLowersPassesLeft ==
    [][loop.pc # "call" =>
         /\ loop' = next_pass(PatchLines, loop)
         /\ PassesLeft(PatchLines, loop') < PassesLeft(PatchLines, loop)]_vars

\* The result of the passes is the result of parse_patch.
PassesGiveParsePatch ==
    PatchParsed =>
        /\ parseResult.done
        /\ parseResult.ok = parse_patch(patch).ok
        /\ parseResult.operations = parse_patch(patch).operations

\* Every pass of the chunk loop that parsed a chunk consumed a line: the
\* `max(1)` is met by no input of parse_patch.
ChunkPassConsumes ==
    (loop.agent = "patch" /\ loop.pc = "update" /\ loop.i < Len(PatchLines)) =>
        parse_update_chunk(SubSeq(PatchLines, loop.i + 1, Len(PatchLines))).consumed >= 1

\* An empty slice is the one input of parse_update_chunk for which it
\* consumes no line, and the index still advances by one.
ZeroConsumedAdvances ==
    parse_update_chunk(<<>>).consumed = 0 /\ chunk_advance(0) = 1

\* A line was rejected as no chunk start: nothing was parsed from it, and
\* the index has advanced by one.
RejectedLinePassedOver ==
    /\ loop.agent = "patch" /\ loop.pc = "update" /\ loop.i >= 1
    /\ PatchLines[loop.i] = <<"a">>
    /\ loop.chunks = <<>>

====
